---- MODULE Spec2Model ----
(***************************************************************************)
(* Verification model of libyang's schema helper routines                  *)
(* (tree_schema_helpers.c, carried in src/src/path.h) and of the NACM      *)
(* extension plugin (src/src/plugins_exts_nacm.c).                         *)
(*                                                                         *)
(* C strings are modelled as sequences of one-character strings where the  *)
(* code looks at single characters, and as TLA+ strings where the code     *)
(* only compares whole strings (strcmp).  A NULL pointer is the value NULL.*)
(* Each group of routines has its own specification (SpecStatus,           *)
(* SpecPrefix, ...); the variables of the other groups stay at their       *)
(* initial (idle) value.                                                   *)
(***************************************************************************)
EXTENDS Integers, Sequences, FiniteSets, TLC

VARIABLES
    status_call,    \* the last lysc_check_status call: arguments and result
    prefix_mod,     \* module being parsed: own prefix, imports, check results
    tpdf_mod,       \* parsed module(s) with their typedefs, and the last typedef call
    nodeid_call,    \* the last lysc_resolve_schema_nodeid call: arguments and result
    ctx,            \* struct ly_ctx: modules in the context, flags, import callback
    last,           \* the result of the last finished top-level lysp_load_module
    compiled,       \* compiled module: extension instances of its nodes, last nacm_compile
    loading,        \* a lysp_load_module call followed step by step: label, *mod, m
    check_call,     \* the last lysp_load_module_check call: arguments and result
    ident_feed,     \* a string fed to lysp_check_identifierchar: position, *prefix
    sort_call,      \* the last lysp_sort_revisions call: the array before and after
    builtin_call    \* the last conversion between a built-in type and its name

vars ==
    <<status_call, prefix_mod, tpdf_mod, nodeid_call, ctx, last, compiled, loading,
      check_call, ident_feed, sort_call, builtin_call>>

NULL == "NULL"

(***************************************************************************)
(* lysc_check_status                                                       *)
(***************************************************************************)

\* status bits of the schema node flags
LYS_STATUS_CURR == 4
LYS_STATUS_DEPRC == 8
LYS_STATUS_OBSLT == 16
LYS_STATUS_MASK == 28

\* flags & LYS_STATUS_MASK (the mask is the bits 2..4 of the flags)
StatusBits(flags) ==
    (flags % (LYS_STATUS_MASK + LYS_STATUS_CURR)) - (flags % LYS_STATUS_CURR)

\* flags that do not belong to the status (config and mandatory bits)
OtherFlagBits == {0, 1, 2, 32}

\* flags of a definition: at most one status bit, any other bits
FlagValues ==
    {s + o : s \in {0, LYS_STATUS_CURR, LYS_STATUS_DEPRC, LYS_STATUS_OBSLT},
             o \in OtherFlagBits}

StatusModules == {"mod1", "mod2"}

\* lysc_check_status without the default of an absent status
lysc_check_status_nodefault(has_ctx, flags1, mod1, flags2, mod2) ==
    LET flg1 == StatusBits(flags1)
        flg2 == StatusBits(flags2)
    IN  IF flg1 < flg2 /\ mod1 = mod2
        THEN [ret |-> "LY_EVALID", logged |-> has_ctx]
        ELSE [ret |-> "LY_SUCCESS", logged |-> FALSE]

\* lysc_check_status(ctx, flags1, mod1, name1, flags2, mod2, name2)
lysc_check_status(has_ctx, flags1, mod1, flags2, mod2) ==
    LET flg1 == IF StatusBits(flags1) # 0 THEN StatusBits(flags1) ELSE LYS_STATUS_CURR
        flg2 == IF StatusBits(flags2) # 0 THEN StatusBits(flags2) ELSE LYS_STATUS_CURR
    IN  IF flg1 < flg2 /\ mod1 = mod2
        THEN [ret |-> "LY_EVALID", logged |-> has_ctx]
        ELSE [ret |-> "LY_SUCCESS", logged |-> FALSE]

\* the arguments of a lysc_check_status call that has not run yet
StatusArgs ==
    [op : {"args"}, has_ctx : BOOLEAN, flags1 : FlagValues, flags2 : FlagValues,
     mod1 : StatusModules, mod2 : StatusModules, res : {NULL}]

NoStatusCall == [op |-> "none"]

CheckStatus ==
    /\ status_call.op = "args"
    /\ status_call' =
          [status_call EXCEPT
              !.op = "lysc_check_status",
              !.res = lysc_check_status(status_call.has_ctx, status_call.flags1,
                          status_call.mod1, status_call.flags2, status_call.mod2)]
    /\ UNCHANGED <<prefix_mod, tpdf_mod, nodeid_call, ctx, last, compiled, loading, check_call, ident_feed, sort_call, builtin_call>>

\* the YANG status of a definition as the claim names it
StatusName(flags) ==
    LET hasbit(b) == (flags \div b) % 2 = 1
    IN  IF hasbit(LYS_STATUS_OBSLT) THEN "obsolete"
        ELSE IF hasbit(LYS_STATUS_DEPRC) THEN "deprecated"
        ELSE "current"

\* (referencing status, referenced status) pairs the status rule forbids
ForbiddenReference ==
    {<<"current", "deprecated">>, <<"current", "obsolete">>, <<"deprecated", "obsolete">>}

\* C8: lysc_check_status returns LY_EVALID exactly when both definitions are of
\* the same module and the referencing status is strictly earlier than the
\* referenced one (current < deprecated < obsolete, absent = current), and
\* LY_SUCCESS otherwise, with or without a compile context.
C8_StatusMonotonic ==
    status_call.op = "lysc_check_status" =>
        LET forbidden == /\ status_call.mod1 = status_call.mod2
                         /\ <<StatusName(status_call.flags1), StatusName(status_call.flags2)>>
                                \in ForbiddenReference
        IN  /\ status_call.res.ret = (IF forbidden THEN "LY_EVALID" ELSE "LY_SUCCESS")
            /\ status_call.res.logged = (forbidden /\ status_call.has_ctx)

\* C8 witness: without a compile context, a definition without a status
\* statement referencing an obsolete one of the same module was rejected
C8_Witness ==
    /\ status_call.op = "lysc_check_status"
    /\ ~status_call.has_ctx
    /\ StatusBits(status_call.flags1) = 0
    /\ StatusName(status_call.flags2) = "obsolete"
    /\ status_call.mod1 = status_call.mod2
    /\ status_call.res.ret = "LY_EVALID"

(***************************************************************************)
(* lysp_check_prefix, called by the parser for the prefix of each import   *)
(***************************************************************************)

Prefixes == {"a", "b", "c", "d"}

\* imports a module may have in the model
MaxImports == 3

\* the value argument points to the prefix field of one import
ImportPrefixField(i) == [kind |-> "import", idx |-> i]

\* &module_prefix: the address of the function's own parameter
ModulePrefixParam == [kind |-> "param", idx |-> 0]

\* *value
PrefixValue(imports, value) == imports[value.idx].prefix

\* lysp_check_prefix that does not compare with the module's own prefix
lysp_check_prefix_importsonly(imports, module_prefix, value) ==
    IF \E i \in 1..Len(imports) :
           /\ imports[i].prefix # NULL
           /\ ImportPrefixField(i) # value
           /\ imports[i].prefix = PrefixValue(imports, value)
    THEN "LY_EEXIST"
    ELSE "LY_SUCCESS"

\* lysp_check_prefix(ctx, imports, module_prefix, value)
lysp_check_prefix(imports, module_prefix, value) ==
    IF /\ module_prefix # NULL
       /\ ModulePrefixParam # value
       /\ module_prefix = PrefixValue(imports, value)
    THEN "LY_EEXIST"
    ELSE IF \E i \in 1..Len(imports) :
               /\ imports[i].prefix # NULL
               /\ ImportPrefixField(i) # value
               /\ imports[i].prefix = PrefixValue(imports, value)
         THEN "LY_EEXIST"
         ELSE "LY_SUCCESS"

\* the module at the start of its parsing
NewPrefixMod ==
    [op |-> "module", prefix |-> NULL, imports |-> <<>>, value |-> NULL,
     ret |-> NULL, failed |-> FALSE]

\* the module's prefix statement; the module header precedes the imports
ParseModulePrefix ==
    \E p \in Prefixes :
        /\ prefix_mod.op # "none"
        /\ ~prefix_mod.failed
        /\ prefix_mod.prefix = NULL
        /\ prefix_mod.imports = <<>>
        /\ prefix_mod' = [prefix_mod EXCEPT !.op = "prefix", !.prefix = p]
        /\ UNCHANGED <<status_call, tpdf_mod, nodeid_call, ctx, last, compiled, loading, check_call, ident_feed, sort_call, builtin_call>>

\* an import statement: the import is appended to the module's imports and its
\* prefix, once parsed, is checked; a failed check ends the parsing
ParseImport ==
    \E p \in Prefixes :
        /\ prefix_mod.op # "none"
        /\ ~prefix_mod.failed
        /\ Len(prefix_mod.imports) < MaxImports
        /\ LET imports == Append(prefix_mod.imports, [prefix |-> p])
               value == ImportPrefixField(Len(imports))
               ret == lysp_check_prefix(imports, prefix_mod.prefix, value)
           IN  prefix_mod' =
                  [prefix_mod EXCEPT !.op = "import", !.imports = imports,
                                     !.value = value, !.ret = ret,
                                     !.failed = (ret # "LY_SUCCESS")]
        /\ UNCHANGED <<status_call, tpdf_mod, nodeid_call, ctx, last, compiled, loading, check_call, ident_feed, sort_call, builtin_call>>

\* the prefixes a module declares: its own (position 0) and its imports'
DeclaredPrefix(k) ==
    IF k = 0 THEN prefix_mod.prefix ELSE prefix_mod.imports[k].prefix

\* C9: lysp_check_prefix returns LY_EEXIST when the checked prefix equals the
\* module's own prefix or the prefix of another import, and LY_SUCCESS otherwise;
\* while every import prefix has passed the check, the module's own prefix and
\* its import prefixes are pairwise distinct.
C9_PrefixesDistinct ==
    /\ prefix_mod.op = "import" =>
          LET k == prefix_mod.value.idx
              clash == \E j \in 0..Len(prefix_mod.imports) :
                           j # k /\ DeclaredPrefix(j) = DeclaredPrefix(k)
          IN  prefix_mod.ret = (IF clash THEN "LY_EEXIST" ELSE "LY_SUCCESS")
    /\ (prefix_mod.op # "none" /\ ~prefix_mod.failed) =>
          \A j, k \in 0..Len(prefix_mod.imports) :
              (j # k /\ DeclaredPrefix(j) # NULL) => DeclaredPrefix(j) # DeclaredPrefix(k)

\* C9 witness: the last import's prefix was rejected because it equals the
\* module's own prefix, after an earlier import had passed
C9_Witness ==
    /\ prefix_mod.op = "import"
    /\ prefix_mod.ret = "LY_EEXIST"
    /\ Len(prefix_mod.imports) >= 2
    /\ prefix_mod.imports[Len(prefix_mod.imports)].prefix = prefix_mod.prefix
    /\ \A j \in 1..(Len(prefix_mod.imports) - 1) :
           prefix_mod.imports[j].prefix # prefix_mod.prefix

(***************************************************************************)
(* C strings as sequences of characters                                    *)
(***************************************************************************)

\* the terminating zero byte of a C string
NUL == "NUL"

\* s[k] of the C string s (k counts from 0); the byte after the last is NUL
At(s, k) == IF k < Len(s) THEN s[k + 1] ELSE NUL

\* strncmp comparing the first character only
StrnEq_firstonly(s, k, lit, n) == At(s, k) = At(lit, 0)

\* !strncmp(&s[k], lit, n) for a literal of at least n characters
StrnEq(s, k, lit, n) == \A j \in 0..(n - 1) : At(s, k + j) = At(lit, j)

\* strchr(s, c) - s: the offset of the first c in s, -1 when strchr gives NULL
strchr(s, c) ==
    IF \E k \in 0..(Len(s) - 1) : At(s, k) = c
    THEN CHOOSE k \in 0..(Len(s) - 1) :
             At(s, k) = c /\ \A j \in 0..(k - 1) : At(s, j) # c
    ELSE -1

\* ly_strncmp(refstr, str, str_len): 0 when the first str_len characters of str
\* are the whole of refstr
ly_strncmp(refstr, str, str_len) ==
    IF StrnEq(refstr, 0, str, str_len) /\ At(refstr, str_len) = NUL THEN 0 ELSE 1

(***************************************************************************)
(* built-in types: lys_datatype2str, lysp_type_str2builtin                 *)
(***************************************************************************)

LY_TYPE_UNKNOWN == "LY_TYPE_UNKNOWN"

\* LY_DATA_TYPE but LY_TYPE_UNKNOWN
BuiltinTypes ==
    {"LY_TYPE_BINARY", "LY_TYPE_UINT8", "LY_TYPE_UINT16", "LY_TYPE_UINT32",
     "LY_TYPE_UINT64", "LY_TYPE_STRING", "LY_TYPE_BITS", "LY_TYPE_BOOL",
     "LY_TYPE_DEC64", "LY_TYPE_EMPTY", "LY_TYPE_ENUM", "LY_TYPE_IDENT",
     "LY_TYPE_INST", "LY_TYPE_LEAFREF", "LY_TYPE_UNION", "LY_TYPE_INT8",
     "LY_TYPE_INT16", "LY_TYPE_INT32", "LY_TYPE_INT64"}

\* lys_datatype2str(basetype)
lys_datatype2str(basetype) ==
    CASE basetype = "LY_TYPE_BINARY" -> <<"b", "i", "n", "a", "r", "y">>
      [] basetype = "LY_TYPE_UINT8" -> <<"u", "i", "n", "t", "8">>
      [] basetype = "LY_TYPE_UINT16" -> <<"u", "i", "n", "t", "1", "6">>
      [] basetype = "LY_TYPE_UINT32" -> <<"u", "i", "n", "t", "3", "2">>
      [] basetype = "LY_TYPE_UINT64" -> <<"u", "i", "n", "t", "6", "4">>
      [] basetype = "LY_TYPE_STRING" -> <<"s", "t", "r", "i", "n", "g">>
      [] basetype = "LY_TYPE_BITS" -> <<"b", "i", "t", "s">>
      [] basetype = "LY_TYPE_BOOL" -> <<"b", "o", "o", "l", "e", "a", "n">>
      [] basetype = "LY_TYPE_DEC64" -> <<"d", "e", "c", "i", "m", "a", "l", "6", "4">>
      [] basetype = "LY_TYPE_EMPTY" -> <<"e", "m", "p", "t", "y">>
      [] basetype = "LY_TYPE_ENUM" -> <<"e", "n", "u", "m", "e", "r", "a", "t", "i", "o", "n">>
      [] basetype = "LY_TYPE_IDENT" -> <<"i", "d", "e", "n", "t", "i", "t", "y", "r", "e", "f">>
      [] basetype = "LY_TYPE_INST" -> <<"i", "n", "s", "t", "a", "n", "c", "e", "-", "i", "d", "e", "n", "t", "i", "f", "i", "e", "r">>
      [] basetype = "LY_TYPE_LEAFREF" -> <<"l", "e", "a", "f", "r", "e", "f">>
      [] basetype = "LY_TYPE_UNION" -> <<"u", "n", "i", "o", "n">>
      [] basetype = "LY_TYPE_INT8" -> <<"i", "n", "t", "8">>
      [] basetype = "LY_TYPE_INT16" -> <<"i", "n", "t", "1", "6">>
      [] basetype = "LY_TYPE_INT32" -> <<"i", "n", "t", "3", "2">>
      [] basetype = "LY_TYPE_INT64" -> <<"i", "n", "t", "6", "4">>
      [] OTHER -> <<"u", "n", "k", "n", "o", "w", "n">>


\* lysp_type_str2builtin(name, len)
lysp_type_str2builtin(name, len) ==
    IF len >= 4
    THEN
        IF At(name, 0) = "b" THEN
            IF At(name, 1) = "i" THEN
                IF len = 6 /\ StrnEq(name, 2, <<"n", "a", "r", "y">>, 4) THEN "LY_TYPE_BINARY"
                ELSE IF len = 4 /\ StrnEq(name, 2, <<"t", "s">>, 2) THEN "LY_TYPE_BITS"
                ELSE LY_TYPE_UNKNOWN
            ELSE IF len = 7 /\ StrnEq(name, 1, <<"o", "o", "l", "e", "a", "n">>, 6) THEN "LY_TYPE_BOOL"
            ELSE LY_TYPE_UNKNOWN
        ELSE IF At(name, 0) = "d" THEN
            IF len = 9 /\ StrnEq(name, 1, <<"e", "c", "i", "m", "a", "l", "6", "4">>, 8) THEN "LY_TYPE_DEC64"
            ELSE LY_TYPE_UNKNOWN
        ELSE IF At(name, 0) = "e" THEN
            IF len = 5 /\ StrnEq(name, 1, <<"m", "p", "t", "y">>, 4) THEN "LY_TYPE_EMPTY"
            ELSE IF len = 11 /\ StrnEq(name, 1, <<"n", "u", "m", "e", "r", "a", "t", "i", "o", "n">>, 10) THEN "LY_TYPE_ENUM"
            ELSE LY_TYPE_UNKNOWN
        ELSE IF At(name, 0) = "i" THEN
            IF At(name, 1) = "n" THEN
                IF len = 4 /\ StrnEq(name, 2, <<"t", "8">>, 2) THEN "LY_TYPE_INT8"
                ELSE IF len = 5 THEN
                    IF StrnEq(name, 2, <<"t", "1", "6">>, 3) THEN "LY_TYPE_INT16"
                    ELSE IF StrnEq(name, 2, <<"t", "3", "2">>, 3) THEN "LY_TYPE_INT32"
                    ELSE IF StrnEq(name, 2, <<"t", "6", "4">>, 3) THEN "LY_TYPE_INT64"
                    ELSE LY_TYPE_UNKNOWN
                ELSE IF len = 19 /\ StrnEq(name, 2, <<"s", "t", "a", "n", "c", "e", "-", "i", "d", "e", "n", "t", "i", "f", "i", "e", "r">>, 17)
                THEN "LY_TYPE_INST"
                ELSE LY_TYPE_UNKNOWN
            ELSE IF len = 11 /\ StrnEq(name, 1, <<"d", "e", "n", "t", "i", "t", "y", "r", "e", "f">>, 10) THEN "LY_TYPE_IDENT"
            ELSE LY_TYPE_UNKNOWN
        ELSE IF At(name, 0) = "l" THEN
            IF len = 7 /\ StrnEq(name, 1, <<"e", "a", "f", "r", "e", "f">>, 6) THEN "LY_TYPE_LEAFREF"
            ELSE LY_TYPE_UNKNOWN
        ELSE IF At(name, 0) = "s" THEN
            IF len = 6 /\ StrnEq(name, 1, <<"t", "r", "i", "n", "g">>, 5) THEN "LY_TYPE_STRING"
            ELSE LY_TYPE_UNKNOWN
        ELSE IF At(name, 0) = "u" THEN
            IF At(name, 1) = "n" THEN
                IF len = 5 /\ StrnEq(name, 2, <<"i", "o", "n">>, 3) THEN "LY_TYPE_UNION"
                ELSE LY_TYPE_UNKNOWN
            ELSE IF At(name, 1) = "i" /\ At(name, 2) = "n" /\ At(name, 3) = "t" THEN
                IF len = 5 /\ At(name, 4) = "8" THEN "LY_TYPE_UINT8"
                ELSE IF len = 6 THEN
                    IF StrnEq(name, 4, <<"1", "6">>, 2) THEN "LY_TYPE_UINT16"
                    ELSE IF StrnEq(name, 4, <<"3", "2">>, 2) THEN "LY_TYPE_UINT32"
                    ELSE IF StrnEq(name, 4, <<"6", "4">>, 2) THEN "LY_TYPE_UINT64"
                    ELSE LY_TYPE_UNKNOWN
                ELSE LY_TYPE_UNKNOWN
            ELSE LY_TYPE_UNKNOWN
        ELSE LY_TYPE_UNKNOWN
    ELSE LY_TYPE_UNKNOWN

\* the characters of the names of the built-in types, and one of no name
NameChars ==
    UNION {{lys_datatype2str(t)[i] : i \in 1..Len(lys_datatype2str(t))} : t \in BuiltinTypes}
    \cup {"x"}

\* strings converted to a built-in type: the names, "unknown", their proper
\* prefixes, their extensions by one character and the strings that differ
\* from one of them in one character
ConvertedNames ==
    LET names == {lys_datatype2str(t) : t \in BuiltinTypes \cup {LY_TYPE_UNKNOWN}}
    IN  names
        \cup UNION {{SubSeq(n, 1, k) : k \in 0..Len(n) - 1} : n \in names}
        \cup {n \o <<c>> : n \in names, c \in NameChars}
        \cup UNION {{[n EXCEPT ![i] = c] : i \in 1..Len(n), c \in NameChars} : n \in names}

\* a built-in type is turned into its name with lys_datatype2str and the name
\* back into a type with lysp_type_str2builtin
ConvertTypeAndBack ==
    /\ builtin_call.op = "type"
    /\ LET name == lys_datatype2str(builtin_call.type)
       IN  builtin_call' = [op |-> "lys_datatype2str", type |-> builtin_call.type,
                            name |-> name,
                            back |-> lysp_type_str2builtin(name, Len(name))]
    /\ UNCHANGED <<status_call, prefix_mod, tpdf_mod, nodeid_call, ctx, last, compiled, loading,
                   check_call, ident_feed, sort_call>>

\* lysp_type_str2builtin is called for a string
ConvertName ==
    /\ builtin_call.op = "name"
    /\ builtin_call' = [op |-> "lysp_type_str2builtin", name |-> builtin_call.name,
                        type |-> lysp_type_str2builtin(builtin_call.name,
                                                       Len(builtin_call.name))]
    /\ UNCHANGED <<status_call, prefix_mod, tpdf_mod, nodeid_call, ctx, last, compiled, loading,
                   check_call, ident_feed, sort_call>>

(***************************************************************************)
(* lys_module_find_prefix                                                  *)
(***************************************************************************)

\* the module of the first import of imports from position u on whose prefix is
\* the len characters at prefix, NULL when there is none
RECURSIVE FindImport(_, _, _, _)
FindImport(imports, prefix, len, u) ==
    IF u > Len(imports) THEN NULL
    ELSE IF ly_strncmp(imports[u].prefix, prefix, len) = 0 THEN imports[u].module
    ELSE FindImport(imports, prefix, len, u + 1)

\* lys_module_find_prefix that compares the prefixes with strncmp alone
lys_module_find_prefix_strncmp(mods, mod, prefix, len) ==
    IF len = 0 \/ StrnEq(mods[mod].prefix, 0, prefix, len) THEN mod
    ELSE IF mods[mod].parsed
            /\ \E u \in 1..Len(mods[mod].imports) : StrnEq(mods[mod].imports[u].prefix, 0, prefix, len)
    THEN mods[mod].imports[CHOOSE u \in 1..Len(mods[mod].imports) :
                              /\ StrnEq(mods[mod].imports[u].prefix, 0, prefix, len)
                              /\ \A v \in 1..(u - 1) :
                                     ~StrnEq(mods[mod].imports[v].prefix, 0, prefix, len)].module
    ELSE NULL

\* lys_module_find_prefix(mod, prefix, len); mods gives the modules' fields
lys_module_find_prefix(mods, mod, prefix, len) ==
    LET m == IF len = 0 \/ ly_strncmp(mods[mod].prefix, prefix, len) = 0 THEN mod ELSE NULL
    IN  IF m = NULL /\ mods[mod].parsed
        THEN FindImport(mods[mod].imports, prefix, len, 1)
        ELSE m

(***************************************************************************)
(* parsed modules with typedefs: lysp_type_find, lysp_check_typedefs       *)
(*                                                                         *)
(* The parsed main module (prefix p) has the schema nodes                  *)
(*     1 container { 2 list { 3 leaf }  4 container }                      *)
(* top-level typedefs and two included submodules.  It imports, with the   *)
(* prefix q, a module whose own prefix is i and which has top-level        *)
(* typedefs and one included submodule.                                    *)
(***************************************************************************)

PNodes == 1..4

\* lysp_node.parent; the node 0 stands for the NULL node pointer
PNodeParent == <<0, 1, 2, 1>>

\* lysp_node.nodetype
PNodeType == <<"LYS_CONTAINER", "LYS_LIST", "LYS_LEAF", "LYS_CONTAINER">>

\* the typedef arrays: of a schema node, of a module, of an included submodule
NodeScope(n) == [mod |-> "main", kind |-> "node", at |-> n]
TopScope(m) == [mod |-> m, kind |-> "top", at |-> 0]
SubScope(m, u) == [mod |-> m, kind |-> "sub", at |-> u]

\* LY_ARRAY_COUNT(module->includes)
IncludeCount(m) == IF m = "main" THEN 2 ELSE 1

TpdfScopes ==
    {NodeScope(n) : n \in {k \in PNodes : PNodeType[k] # "LYS_LEAF"}}
    \cup {TopScope(m) : m \in {"main", "imp"}}
    \cup {SubScope("main", u) : u \in 1..IncludeCount("main")}
    \cup {SubScope("imp", u) : u \in 1..IncludeCount("imp")}

\* struct lys_module of the two modules: prefix, parsed, parsed->imports
TypeModules(imp_parsed) ==
    [m \in {"main", "imp"} |->
        IF m = "main"
        THEN [prefix |-> <<"p">>, parsed |-> TRUE,
              imports |-> <<[prefix |-> <<"q">>, module |-> "imp"]>>]
        ELSE [prefix |-> <<"i">>, parsed |-> imp_parsed, imports |-> <<>>]]

\* lysp_node_typedefs(node): NULL (the empty array) for a node without typedefs
lysp_node_typedefs(typedefs, node) ==
    IF PNodeType[node] \in {"LYS_CONTAINER", "LYS_LIST", "LYS_GROUPING", "LYS_RPC",
                            "LYS_ACTION", "LYS_INPUT", "LYS_OUTPUT", "LYS_NOTIF"}
    THEN typedefs[NodeScope(node)]
    ELSE <<>>

\* the position of the first typedef of the array named name, 0 when there is none
FirstNamed(array, name) ==
    IF \E u \in 1..Len(array) : array[u] = name
    THEN CHOOSE u \in 1..Len(array) :
             array[u] = name /\ \A v \in 1..(u - 1) : array[v] # name
    ELSE 0

\* a pointer to a typedef is the array and the position in it; the position 0
\* stands for the NULL pointer and -1 for a pointer the code has not written
NullTpdf == [scope |-> TopScope("main"), idx |-> 0]
UnsetTpdf == [scope |-> TopScope("main"), idx |-> -1]

\* lysp_type_match(name, node)
lysp_type_match(typedefs, name, node) ==
    LET u == FirstNamed(lysp_node_typedefs(typedefs, node), name)
    IN  IF u = 0 THEN NullTpdf ELSE [scope |-> NodeScope(node), idx |-> u]

\* lysp_type_find, the loop over the parents' nodes
RECURSIVE TypeFindLocal(_, _, _, _)
TypeFindLocal(typedefs, name, node, searched) ==
    IF node = 0 THEN [tpdf |-> NullTpdf, node |-> 0, searched |-> searched]
    ELSE LET tpdf == lysp_type_match(typedefs, name, node)
         IN  IF tpdf.idx # 0
             THEN [tpdf |-> tpdf, node |-> node,
                   searched |-> Append(searched, NodeScope(node))]
             ELSE TypeFindLocal(typedefs, name, PNodeParent[node],
                                Append(searched, NodeScope(node)))

\* lysp_type_find, the loop over the submodules' typedefs from include u on
RECURSIVE TypeFindIncludes(_, _, _, _, _)
TypeFindIncludes(typedefs, name, module, u, searched) ==
    IF u > IncludeCount(module) THEN [tpdf |-> NullTpdf, searched |-> searched]
    ELSE LET v == FirstNamed(typedefs[SubScope(module, u)], name)
         IN  IF v # 0
             THEN [tpdf |-> [scope |-> SubScope(module, u), idx |-> v],
                   searched |-> Append(searched, SubScope(module, u))]
             ELSE TypeFindIncludes(typedefs, name, module, u + 1,
                                   Append(searched, SubScope(module, u)))

\* lysp_type_find, the search in the top-level typedefs and the submodules'
TypeFindGlobal(typedefs, name, module, type, local) ==
    LET u == FirstNamed(typedefs[TopScope(module)], name)
        searched == IF typedefs[TopScope(module)] # <<>>
                    THEN Append(local.searched, TopScope(module))
                    ELSE local.searched
        inc == TypeFindIncludes(typedefs, name, module, 1, searched)
    IN  IF u # 0
        THEN [ret |-> "LY_SUCCESS", type |-> type, node |-> 0, module |-> module,
              tpdf |-> [scope |-> TopScope(module), idx |-> u], searched |-> searched]
        ELSE IF inc.tpdf.idx # 0
        THEN [ret |-> "LY_SUCCESS", type |-> type, node |-> 0, module |-> module,
              tpdf |-> inc.tpdf, searched |-> inc.searched]
        ELSE [ret |-> "LY_ENOTFOUND", type |-> type, node |-> 0, module |-> module,
              tpdf |-> local.tpdf, searched |-> inc.searched]

\* lysp_type_find that searches the typedefs before it looks for a built-in type
lysp_type_find_searchfirst(typedefs, imp_parsed, id, start_node) ==
    LET local == IF start_node # 0
                 THEN TypeFindLocal(typedefs, id, start_node, <<>>)
                 ELSE [tpdf |-> UnsetTpdf, node |-> 0, searched |-> <<>>]
        found == IF local.tpdf.idx > 0
                 THEN [ret |-> "LY_SUCCESS", type |-> LY_TYPE_UNKNOWN, node |-> local.node,
                       module |-> "main", tpdf |-> local.tpdf, searched |-> local.searched]
                 ELSE TypeFindGlobal(typedefs, id, "main", LY_TYPE_UNKNOWN, local)
    IN  IF found.ret = "LY_SUCCESS" \/ lysp_type_str2builtin(id, Len(id)) = LY_TYPE_UNKNOWN
        THEN found
        ELSE [ret |-> "LY_SUCCESS", type |-> lysp_type_str2builtin(id, Len(id)),
              node |-> 0, module |-> "main", tpdf |-> NullTpdf, searched |-> found.searched]

\* lysp_type_find that searches the local typedefs for every module
lysp_type_find_alwayslocal(typedefs, imp_parsed, id, start_node) ==
    LET str == strchr(id, ":")
        mod == IF str >= 0
               THEN lys_module_find_prefix(TypeModules(imp_parsed), "main", id, str)
               ELSE "main"
        module == IF mod # NULL /\ TypeModules(imp_parsed)[mod].parsed THEN mod ELSE NULL
        name == IF str >= 0 THEN SubSeq(id, str + 2, Len(id)) ELSE id
        type == IF str >= 0 THEN LY_TYPE_UNKNOWN
                ELSE lysp_type_str2builtin(name, Len(name))
        local == IF start_node # 0
                 THEN TypeFindLocal(typedefs, name, start_node, <<>>)
                 ELSE [tpdf |-> UnsetTpdf, node |-> 0, searched |-> <<>>]
    IN  IF str < 0 /\ type # LY_TYPE_UNKNOWN
        THEN [ret |-> "LY_SUCCESS", type |-> type, node |-> 0, module |-> module,
              tpdf |-> NullTpdf, searched |-> <<>>]
        ELSE IF module = NULL
        THEN [ret |-> "LY_ENOTFOUND", type |-> type, node |-> 0, module |-> NULL,
              tpdf |-> UnsetTpdf, searched |-> <<>>]
        ELSE IF local.tpdf.idx > 0
        THEN [ret |-> "LY_SUCCESS", type |-> type, node |-> local.node, module |-> module,
              tpdf |-> local.tpdf, searched |-> local.searched]
        ELSE TypeFindGlobal(typedefs, name, module, type, local)

\* lysp_type_find(id, start_node, start_module, type, tpdf, node, module) with
\* the main module as start_module; tpdf is UnsetTpdf where the code leaves *tpdf
\* as the caller passed it; searched lists the typedef arrays looked into
lysp_type_find(typedefs, imp_parsed, id, start_node) ==
    LET str == strchr(id, ":")
        mod == IF str >= 0
               THEN lys_module_find_prefix(TypeModules(imp_parsed), "main", id, str)
               ELSE "main"
        module == IF mod # NULL /\ TypeModules(imp_parsed)[mod].parsed THEN mod ELSE NULL
        name == IF str >= 0 THEN SubSeq(id, str + 2, Len(id)) ELSE id
        type == IF str >= 0 THEN LY_TYPE_UNKNOWN
                ELSE lysp_type_str2builtin(name, Len(name))
        local == IF start_node # 0 /\ module = "main"
                 THEN TypeFindLocal(typedefs, name, start_node, <<>>)
                 ELSE [tpdf |-> UnsetTpdf, node |-> 0, searched |-> <<>>]
    IN  IF str < 0 /\ type # LY_TYPE_UNKNOWN
        THEN [ret |-> "LY_SUCCESS", type |-> type, node |-> 0, module |-> module,
              tpdf |-> NullTpdf, searched |-> <<>>]
        ELSE IF module = NULL
        THEN [ret |-> "LY_ENOTFOUND", type |-> type, node |-> 0, module |-> NULL,
              tpdf |-> UnsetTpdf, searched |-> <<>>]
        ELSE IF local.tpdf.idx > 0
        THEN [ret |-> "LY_SUCCESS", type |-> type, node |-> local.node, module |-> module,
              tpdf |-> local.tpdf, searched |-> local.searched]
        ELSE TypeFindGlobal(typedefs, name, module, type, local)

\* lysp_check_typedef, the search of the typedefs in the parents' nodes
RECURSIVE TypedefInParents(_, _, _)
TypedefInParents(typedefs, name, parent) ==
    /\ parent # 0
    /\ \/ lysp_type_match(typedefs, name, parent).idx # 0
       \/ TypedefInParents(typedefs, name, PNodeParent[parent])

\* lysp_check_typedef that does not look into the parents' nodes
lysp_check_typedef_noparents(typedefs, node, tpdf, tpdfs_global) ==
    LET name == typedefs[tpdf.scope][tpdf.idx]
    IN  IF lysp_type_str2builtin(name, Len(name)) # LY_TYPE_UNKNOWN
        THEN [ret |-> "LY_EEXIST", tpdfs_global |-> tpdfs_global]
        ELSE IF node # 0 /\ \E u \in 1..(tpdf.idx - 1) :
                                lysp_node_typedefs(typedefs, node)[u] = name
        THEN [ret |-> "LY_EEXIST", tpdfs_global |-> tpdfs_global]
        ELSE IF node # 0
        THEN [ret |-> IF name \in tpdfs_global THEN "LY_EEXIST" ELSE "LY_SUCCESS",
              tpdfs_global |-> tpdfs_global]
        ELSE IF name \in tpdfs_global
        THEN [ret |-> "LY_EEXIST", tpdfs_global |-> tpdfs_global]
        ELSE [ret |-> "LY_SUCCESS", tpdfs_global |-> tpdfs_global \cup {name}]

\* lysp_check_typedef(ctx, node, tpdf, tpdfs_global, tpdfs_scoped); the hash table
\* tpdfs_global is the set of the names inserted (lyht_insert fails for a name
\* that is in the table, lyht_find finds it); tpdfs_scoped is only written
lysp_check_typedef(typedefs, node, tpdf, tpdfs_global) ==
    LET name == typedefs[tpdf.scope][tpdf.idx]
    IN  IF lysp_type_str2builtin(name, Len(name)) # LY_TYPE_UNKNOWN
        THEN [ret |-> "LY_EEXIST", tpdfs_global |-> tpdfs_global]
        ELSE IF node # 0 /\ \E u \in 1..(tpdf.idx - 1) :
                                lysp_node_typedefs(typedefs, node)[u] = name
        THEN [ret |-> "LY_EEXIST", tpdfs_global |-> tpdfs_global]
        ELSE IF node # 0 /\ TypedefInParents(typedefs, name, PNodeParent[node])
        THEN [ret |-> "LY_EEXIST", tpdfs_global |-> tpdfs_global]
        ELSE IF node # 0
        THEN [ret |-> IF name \in tpdfs_global THEN "LY_EEXIST" ELSE "LY_SUCCESS",
              tpdfs_global |-> tpdfs_global]
        ELSE IF name \in tpdfs_global
        THEN [ret |-> "LY_EEXIST", tpdfs_global |-> tpdfs_global]
        ELSE [ret |-> "LY_SUCCESS", tpdfs_global |-> tpdfs_global \cup {name}]

\* the lysp_check_typedef calls for the typedefs of one array
TypedefChecks(typedefs, node, scope) ==
    [u \in 1..Len(typedefs[scope]) |-> [node |-> node, tpdf |-> [scope |-> scope, idx |-> u]]]

\* ctx->tpdfs_nodes: the parser adds each node in which it parses typedefs
tpdfs_nodes(typedefs) ==
    SelectSeq(<<1, 2, 3, 4>>, LAMBDA n : lysp_node_typedefs(typedefs, n) # <<>>)

\* the lysp_check_typedef calls for the typedefs of the nodes from position i on
RECURSIVE NodeTypedefChecks(_, _, _)
NodeTypedefChecks(typedefs, nodes, i) ==
    IF i > Len(nodes) THEN <<>>
    ELSE TypedefChecks(typedefs, nodes[i], NodeScope(nodes[i]))
             \o NodeTypedefChecks(typedefs, nodes, i + 1)

\* the lysp_check_typedef calls for the submodules' typedefs from include v on
RECURSIVE IncludeTypedefChecks(_, _)
IncludeTypedefChecks(typedefs, v) ==
    IF v > IncludeCount("main") THEN <<>>
    ELSE TypedefChecks(typedefs, 0, SubScope("main", v))
             \o IncludeTypedefChecks(typedefs, v + 1)

\* lysp_check_typedefs, the calls from position i on: the result of the first
\* failing lysp_check_typedef (check) and the value returned (ret)
RECURSIVE RunTypedefChecks(_, _, _, _)
RunTypedefChecks(typedefs, checks, i, tpdfs_global) ==
    IF i > Len(checks) THEN [ret |-> "LY_SUCCESS", check |-> "LY_SUCCESS"]
    ELSE LET r == lysp_check_typedef(typedefs, checks[i].node, checks[i].tpdf, tpdfs_global)
         IN  IF r.ret # "LY_SUCCESS"
             THEN [ret |-> "LY_EVALID", check |-> r.ret]
             ELSE RunTypedefChecks(typedefs, checks, i + 1, r.tpdfs_global)

\* lysp_check_typedefs handing the result of the failing lysp_check_typedef on
lysp_check_typedefs_propagate(typedefs) ==
    CHOOSE out \in {[ret |-> r.check, check |-> r.check] :
                    r \in {RunTypedefChecks(typedefs,
                               TypedefChecks(typedefs, 0, TopScope("main"))
                                   \o IncludeTypedefChecks(typedefs, 1)
                                   \o NodeTypedefChecks(typedefs, tpdfs_nodes(typedefs), 1),
                               1, {})}} : TRUE

\* lysp_check_typedefs(ctx, mod) for the main module
lysp_check_typedefs(typedefs) ==
    RunTypedefChecks(typedefs,
        TypedefChecks(typedefs, 0, TopScope("main"))
            \o IncludeTypedefChecks(typedefs, 1)
            \o NodeTypedefChecks(typedefs, tpdfs_nodes(typedefs), 1),
        1, {})

(***************************************************************************)
(* typedef operations                                                      *)
(***************************************************************************)

\* typedefs a behaviour parses in all
MaxTpdfs == 2

\* typedef names: two ordinary names and the name of a built-in type
TpdfNames == {<<"t">>, <<"u">>, <<"i", "n", "t", "8">>}

\* prefixes of the type names looked up: none, the main module's own, the
\* import's, the imported module's own (no prefix of the main module), the empty
LookupPrefixes == {<<>>, <<"p", ":">>, <<"q", ":">>, <<"i", ":">>, <<":">>}

\* names looked up
LookupNames == {<<"t">>, <<"i", "n", "t", "8">>}

\* the parsed modules before any typedef statement
NewTpdfMod(imp_parsed) ==
    [op |-> "parse", typedefs |-> [s \in TpdfScopes |-> <<>>], count |-> 0,
     imp_parsed |-> imp_parsed, id |-> <<>>, start_node |-> 0,
     res |-> [ret |-> "none"]]

\* the parser reads a typedef statement
ParseTypedef ==
    \E scope \in TpdfScopes, name \in TpdfNames :
        /\ tpdf_mod.op = "parse"
        /\ tpdf_mod.count < MaxTpdfs
        /\ scope.mod = "imp" => tpdf_mod.imp_parsed
        /\ tpdf_mod' = [tpdf_mod EXCEPT !.typedefs[scope] = Append(@, name),
                                        !.count = @ + 1]
        /\ UNCHANGED <<status_call, prefix_mod, nodeid_call, ctx, last, compiled, loading, check_call, ident_feed, sort_call, builtin_call>>

\* a type statement of the main module is resolved
TypeFind ==
    \E prefix \in LookupPrefixes, name \in LookupNames, start_node \in PNodes \cup {0} :
        /\ tpdf_mod.op = "parse"
        /\ tpdf_mod' =
              [tpdf_mod EXCEPT
                  !.op = "lysp_type_find", !.id = prefix \o name,
                  !.start_node = start_node,
                  !.res = lysp_type_find(tpdf_mod.typedefs, tpdf_mod.imp_parsed,
                                         prefix \o name, start_node)]
        /\ UNCHANGED <<status_call, prefix_mod, nodeid_call, ctx, last, compiled, loading, check_call, ident_feed, sort_call, builtin_call>>

\* the typedefs of the main module are checked at the end of its parsing
CheckTypedefs ==
    /\ tpdf_mod.op = "parse"
    /\ tpdf_mod' = [tpdf_mod EXCEPT !.op = "lysp_check_typedefs",
                                    !.res = lysp_check_typedefs(tpdf_mod.typedefs)]
    /\ UNCHANGED <<status_call, prefix_mod, nodeid_call, ctx, last, compiled, loading, check_call, ident_feed, sort_call, builtin_call>>


\* a built-in type is probed under the typedefs the initial state gives
ProbeType ==
    /\ tpdf_mod.op = "probe"
    /\ tpdf_mod' =
          [tpdf_mod EXCEPT
              !.op = "lysp_type_find",
              !.res = lysp_type_find(tpdf_mod.typedefs, tpdf_mod.imp_parsed,
                                     tpdf_mod.id, tpdf_mod.start_node)]
    /\ UNCHANGED <<status_call, prefix_mod, nodeid_call, ctx, last, compiled, loading, check_call, ident_feed, sort_call, builtin_call>>

\* the names of the built-in types
BuiltinNames == {lys_datatype2str(t) : t \in BuiltinTypes}

\* names probed: the built-in names, each without its last character, with one
\* more character, and with one character replaced, and an ordinary name
ProbeNames ==
    BuiltinNames
    \cup {SubSeq(n, 1, Len(n) - 1) : n \in BuiltinNames}
    \cup {n \o <<"x">> : n \in BuiltinNames}
    \cup UNION {{[n EXCEPT ![i] = "x"] : i \in 1..Len(n)} : n \in BuiltinNames}
    \cup {<<"t">>}

\* the modules in which every typedef array holds (shadow) or does not hold a
\* typedef of the probed name, before the name is looked up
ProbeTpdfMods ==
    {[op |-> "probe",
      typedefs |-> [s \in TpdfScopes |-> IF shadow THEN <<name>> ELSE <<>>],
      count |-> IF shadow THEN Cardinality(TpdfScopes) ELSE 0,
      imp_parsed |-> TRUE, id |-> name, start_node |-> start_node,
      res |-> [ret |-> "none"]] :
        name \in ProbeNames, shadow \in BOOLEAN, start_node \in {0, 3}}

(***************************************************************************)
(* schema node-ids: ly_parse_nodeid, lys_find_child,                       *)
(* lysc_resolve_schema_nodeid                                              *)
(*                                                                         *)
(* Module A (prefix a) imports B with the prefix ab and C with the prefix  *)
(* c; module B (prefix ab) imports C with the prefix a; module C (prefix   *)
(* c) is kept compiled only.  The compiled tree of A is                    *)
(*     1 container c { 2 leaf l   3 leaf l (augmented by B) }              *)
(*     4 rpc r { 5 input { 7 leaf l }  6 output { 8 leaf l } }             *)
(*     9 notification n                                                    *)
(***************************************************************************)

\* is_yangidentstartchar(c)
is_yangidentstartchar(c) ==
    c \in {"a", "b", "c", "d", "e", "f", "g", "h", "i", "j", "k", "l", "m",
           "n", "o", "p", "q", "r", "s", "t", "u", "v", "w", "x", "y", "z",
           "A", "B", "C", "D", "E", "F", "G", "H", "I", "J", "K", "L", "M",
           "N", "O", "P", "Q", "R", "S", "T", "U", "V", "W", "X", "Y", "Z", "_"}

\* is_yangidentchar(c)
is_yangidentchar(c) ==
    \/ is_yangidentstartchar(c)
    \/ c \in {"0", "1", "2", "3", "4", "5", "6", "7", "8", "9", "-", "."}

\* the offset of the first character of s at or after id that is not an
\* identifier character
RECURSIVE SkipIdentChars(_, _)
SkipIdentChars(s, id) ==
    IF is_yangidentchar(At(s, id)) THEN SkipIdentChars(s, id + 1) ELSE id

\* lys_parse_id(&id) on the string s: the result and the new offset
lys_parse_id(s, id) ==
    IF ~is_yangidentstartchar(At(s, id))
    THEN [ret |-> "LY_EINVAL", id |-> id]
    ELSE [ret |-> "LY_SUCCESS", id |-> SkipIdentChars(s, id + 1)]

\* ly_parse_nodeid(&id, &prefix, &prefix_len, &name, &name_len) on the string
\* s; prefix and name are offsets into s, prefix -1 is the NULL prefix
ly_parse_nodeid(s, id) ==
    LET first == lys_parse_id(s, id)
    IN  IF first.ret # "LY_SUCCESS"
        THEN [ret |-> first.ret, id |-> first.id,
              prefix |-> id, prefix_len |-> 0, name |-> -1, name_len |-> 0]
        ELSE IF At(s, first.id) = ":"
        THEN LET second == lys_parse_id(s, first.id + 1)
             IN  IF second.ret # "LY_SUCCESS"
                 THEN [ret |-> second.ret, id |-> second.id,
                       prefix |-> id, prefix_len |-> first.id - id,
                       name |-> first.id + 1, name_len |-> 0]
                 ELSE [ret |-> "LY_SUCCESS", id |-> second.id,
                       prefix |-> id, prefix_len |-> first.id - id,
                       name |-> first.id + 1, name_len |-> second.id - (first.id + 1)]
        ELSE [ret |-> "LY_SUCCESS", id |-> first.id,
              prefix |-> -1, prefix_len |-> 0, name |-> id, name_len |-> first.id - id]

\* the C string that starts at offset k of s
StrFrom(s, k) == SubSeq(s, k + 1, Len(s))

\* struct lys_module of the modules: prefix, whether the parsed tree is kept,
\* and the imports of the parsed tree
NodeidModules ==
    [A |-> [prefix |-> <<"a">>, parsed |-> TRUE,
            imports |-> <<[prefix |-> <<"a", "b">>, module |-> "B"],
                          [prefix |-> <<"c">>, module |-> "C"]>>],
     B |-> [prefix |-> <<"a", "b">>, parsed |-> TRUE,
            imports |-> <<[prefix |-> <<"a">>, module |-> "C"]>>],
     C |-> [prefix |-> <<"c">>, parsed |-> FALSE, imports |-> <<>>]]

\* struct lysc_node of the compiled nodes
SchemaNodes ==
    <<[name |-> <<"c">>, module |-> "A", nodetype |-> "LYS_CONTAINER", parent |-> 0],
      [name |-> <<"l">>, module |-> "A", nodetype |-> "LYS_LEAF", parent |-> 1],
      [name |-> <<"l">>, module |-> "B", nodetype |-> "LYS_LEAF", parent |-> 1],
      [name |-> <<"r">>, module |-> "A", nodetype |-> "LYS_RPC", parent |-> 0],
      [name |-> <<"i", "n", "p", "u", "t">>, module |-> "A", nodetype |-> "LYS_INPUT", parent |-> 4],
      [name |-> <<"o", "u", "t", "p", "u", "t">>, module |-> "A", nodetype |-> "LYS_OUTPUT", parent |-> 4],
      [name |-> <<"l">>, module |-> "A", nodetype |-> "LYS_LEAF", parent |-> 5],
      [name |-> <<"l">>, module |-> "A", nodetype |-> "LYS_LEAF", parent |-> 6],
      [name |-> <<"n">>, module |-> "A", nodetype |-> "LYS_NOTIF", parent |-> 0]>>

\* the nodes in the order of their creation
NodeOrder == [k \in 1..Len(SchemaNodes) |-> k]

\* the nodes lys_getnext gives, in order, for the children of parent, or for the
\* top level of module's compiled tree when parent is NULL (0); output chooses
\* the output children of an rpc or action (LYS_GETNEXT_OUTPUT)
lys_getnext(parent, module, output) ==
    IF parent = 0
    THEN SelectSeq(NodeOrder, LAMBDA k : SchemaNodes[k].parent = 0 /\ module = "A")
    ELSE IF SchemaNodes[parent].nodetype \in {"LYS_RPC", "LYS_ACTION"}
    THEN LET inout == IF output THEN "LYS_OUTPUT" ELSE "LYS_INPUT"
             via == CHOOSE k \in 1..Len(SchemaNodes) :
                        SchemaNodes[k].parent = parent /\ SchemaNodes[k].nodetype = inout
         IN  SelectSeq(NodeOrder, LAMBDA k : SchemaNodes[k].parent = via)
    ELSE SelectSeq(NodeOrder, LAMBDA k : SchemaNodes[k].parent = parent)

\* the first node of nodes from position u on that belongs to module and has
\* the name of name_len characters at name, NULL (0) when there is none
RECURSIVE FindNamed(_, _, _, _, _)
FindNamed(nodes, module, name, name_len, u) ==
    IF u > Len(nodes) THEN 0
    ELSE IF /\ SchemaNodes[nodes[u]].module = module
            /\ ly_strncmp(SchemaNodes[nodes[u]].name, name, name_len) = 0
    THEN nodes[u]
    ELSE FindNamed(nodes, module, name, name_len, u + 1)

\* lys_find_child(parent, module, name, name_len, 0, options)
lys_find_child(parent, module, name, name_len, output) ==
    FindNamed(lys_getnext(parent, module, output), module, name, name_len, 1)

\* the input of the rpc or action taken for its output as well
ActionInout_input(node, inout) ==
    CHOOSE k \in 1..Len(SchemaNodes) :
        SchemaNodes[k].parent = node /\ SchemaNodes[k].nodetype = "LYS_INPUT"

\* &((struct lysc_action *)node)->input or ->output
ActionInout(node, inout) ==
    CHOOSE k \in 1..Len(SchemaNodes) :
        SchemaNodes[k].parent = node /\ SchemaNodes[k].nodetype = inout

\* the flag a node of the type adds to *result_flag
ResultFlag(current_nodetype) ==
    IF current_nodetype = "LYS_NOTIF" THEN {"LYSC_OPT_NOTIFICATION"}
    ELSE IF current_nodetype = "LYS_INPUT" THEN {"LYSC_OPT_RPC_INPUT"}
    ELSE IF current_nodetype = "LYS_OUTPUT" THEN {"LYSC_OPT_RPC_OUTPUT"}
    ELSE {}

\* a return from inside the loop that leaves the node reached in *target
ResolveFail_keeptarget(w, ret) ==
    [ret |-> ret, target |-> w.context_node, result_flag |-> w.result_flag,
     vecode |-> "LYVE_REFERENCE", segments |-> w.segments, lookups |-> w.lookups]

\* a return from inside the loop after a LOGVAL: *target is still NULL
ResolveFail(w, ret) ==
    [ret |-> ret, target |-> 0, result_flag |-> w.result_flag,
     vecode |-> "LYVE_REFERENCE", segments |-> w.segments, lookups |-> w.lookups]

\* the code after the loop without the check of the node type
ResolveEnd_nofilter(w, nodetype) ==
    IF w.ret = "LY_SUCCESS"
    THEN [ret |-> "LY_SUCCESS",
          target |-> w.context_node, result_flag |-> w.result_flag,
          vecode |-> "none", segments |-> w.segments, lookups |-> w.lookups]
    ELSE [ret |-> w.ret, target |-> 0, result_flag |-> w.result_flag,
          vecode |-> "LYVE_REFERENCE", segments |-> w.segments, lookups |-> w.lookups]

\* the code after the loop; nodetype is the set of the accepted node types,
\* empty for the filter 0
ResolveEnd(w, nodetype) ==
    IF w.ret = "LY_SUCCESS"
    THEN [ret |-> IF nodetype # {} /\ w.current_nodetype \notin nodetype
                  THEN "LY_EDENIED" ELSE "LY_SUCCESS",
          target |-> w.context_node, result_flag |-> w.result_flag,
          vecode |-> "none", segments |-> w.segments, lookups |-> w.lookups]
    ELSE [ret |-> w.ret, target |-> 0, result_flag |-> w.result_flag,
          vecode |-> "LYVE_REFERENCE", segments |-> w.segments, lookups |-> w.lookups]

\* the move of the walk by one parsed segment p: the new context_node (0 for
\* NULL) and getnext_extra_flag, found FALSE when the segment's module is not
\* the module of the rpc or action the walk stands on; lookup is the
\* lys_find_child call made, if any: its parent, whether LYS_GETNEXT_OUTPUT was
\* passed, and the nodes it searched
ResolveStep(nodeid, w, mod, p) ==
    IF /\ w.context_node # 0
       /\ SchemaNodes[w.context_node].nodetype \in {"LYS_RPC", "LYS_ACTION"}
    THEN IF mod # SchemaNodes[w.context_node].module
         THEN [found |-> FALSE, context_node |-> 0, getnext_extra_flag |-> w.getnext_extra_flag,
               lookup |-> <<>>]
         ELSE IF ly_strncmp(<<"i", "n", "p", "u", "t">>, StrFrom(nodeid, p.name), p.name_len) = 0
         THEN [found |-> TRUE, context_node |-> ActionInout(w.context_node, "LYS_INPUT"),
               getnext_extra_flag |-> w.getnext_extra_flag, lookup |-> <<>>]
         ELSE IF ly_strncmp(<<"o", "u", "t", "p", "u", "t">>, StrFrom(nodeid, p.name), p.name_len) = 0
         THEN [found |-> TRUE, context_node |-> ActionInout(w.context_node, "LYS_OUTPUT"),
               getnext_extra_flag |-> TRUE, lookup |-> <<>>]
         ELSE [found |-> TRUE, context_node |-> 0, getnext_extra_flag |-> w.getnext_extra_flag,
               lookup |-> <<>>]
    ELSE [found |-> TRUE,
          context_node |-> lys_find_child(w.context_node, mod, StrFrom(nodeid, p.name),
                                          p.name_len, w.getnext_extra_flag),
          getnext_extra_flag |-> FALSE,
          lookup |-> <<[parent |-> w.context_node, output |-> w.getnext_extra_flag,
                        searched |-> lys_getnext(w.context_node, mod,
                                                 w.getnext_extra_flag)]>>]

\* the while loop of lysc_resolve_schema_nodeid and the code after it, from
\* the loop state w: id (offset into nodeid), ret, context_node,
\* getnext_extra_flag, current_nodetype, result_flag, the number of
\* ly_parse_nodeid calls made and the lys_find_child calls made
RECURSIVE ResolveLoop(_, _, _, _, _)
ResolveLoop(nodeid, nodeid_len, context_module, nodetype, w) ==
    IF At(nodeid, w.id) = NUL THEN ResolveEnd(w, nodetype)
    ELSE
    LET p == ly_parse_nodeid(nodeid, w.id)
        parsed == [w EXCEPT !.ret = p.ret, !.id = p.id, !.segments = w.segments + 1]
    IN  IF p.ret # "LY_SUCCESS" THEN ResolveEnd(parsed, nodetype)
        ELSE
        LET mod == IF p.prefix >= 0
                   THEN lys_module_find_prefix(NodeidModules, context_module,
                                               StrFrom(nodeid, p.prefix), p.prefix_len)
                   ELSE context_module
        IN  IF mod = NULL THEN ResolveFail(parsed, "LY_ENOTFOUND")
            ELSE
            LET step == ResolveStep(nodeid, parsed, mod, p)
                looked == [parsed EXCEPT !.lookups = parsed.lookups \o step.lookup]
            IN  IF ~step.found \/ step.context_node = 0
                THEN ResolveFail(looked, "LY_ENOTFOUND")
                ELSE
                LET current_nodetype == SchemaNodes[step.context_node].nodetype
                    moved == [looked EXCEPT
                                 !.context_node = step.context_node,
                                 !.getnext_extra_flag = step.getnext_extra_flag,
                                 !.current_nodetype = current_nodetype,
                                 !.result_flag = parsed.result_flag \cup ResultFlag(current_nodetype)]
                IN  IF At(nodeid, p.id) = NUL \/ (nodeid_len # 0 /\ p.id >= nodeid_len)
                    THEN ResolveEnd(moved, nodetype)
                    ELSE IF At(nodeid, p.id) # "/"
                    THEN ResolveFail(moved, "LY_EVALID")
                    ELSE ResolveLoop(nodeid, nodeid_len, context_module, nodetype,
                                     [moved EXCEPT !.id = p.id + 1])

\* lysc_resolve_schema_nodeid that takes a node-id with a leading '/' also as
\* a descendant node-id
lysc_resolve_schema_nodeid_anyslash(nodeid, nodeid_len, context_node, context_module, nodetype) ==
    LET w == [id |-> IF At(nodeid, 0) = "/" THEN 1 ELSE 0, ret |-> "LY_EVALID",
              context_node |-> context_node, getnext_extra_flag |-> FALSE,
              current_nodetype |-> "0", result_flag |-> {}, segments |-> 0, lookups |-> <<>>]
    IN  ResolveLoop(nodeid, nodeid_len, context_module, nodetype, w)

\* lysc_resolve_schema_nodeid(ctx, nodeid, nodeid_len, context_node,
\* context_module, nodetype, &target, &result_flag): the return value, *target
\* (0 for NULL), *result_flag, the validation error code logged, and the number
\* of ly_parse_nodeid calls made
lysc_resolve_schema_nodeid(nodeid, nodeid_len, context_node, context_module, nodetype) ==
    LET w == [id |-> 0, ret |-> "LY_EVALID",
              context_node |-> context_node, getnext_extra_flag |-> FALSE,
              current_nodetype |-> "0", result_flag |-> {}, segments |-> 0, lookups |-> <<>>]
    IN  IF context_node # 0
        THEN IF At(nodeid, 0) = "/"
             THEN ResolveFail(w, "LY_EVALID")
             ELSE ResolveLoop(nodeid, nodeid_len, context_module, nodetype, w)
        ELSE IF At(nodeid, 0) # "/"
             THEN ResolveFail(w, "LY_EVALID")
             ELSE ResolveLoop(nodeid, nodeid_len, context_module, nodetype,
                              [w EXCEPT !.id = 1])

(***************************************************************************)
(* node-id operations                                                      *)
(***************************************************************************)

\* the largest number of segments of a generated node-id
MaxSegs == 3

\* the segments node-ids are generated from
NodeidSegs ==
    {<<>>, <<"c">>, <<"l">>, <<"a", "b", ":", "l">>, <<"z", ":", "l">>, <<"r">>,
     <<"i", "n", "p", "u", "t">>, <<"o", "u", "t", "p", "u", "t">>, <<"n">>,
     <<"c", "?">>, <<"a", "b", ":", "i", "n", "p", "u", "t">>, <<"i", "n", "p">>}

\* the segments with a '/' between each two
RECURSIVE JoinSegs(_)
JoinSegs(segs) ==
    IF segs = <<>> THEN <<>>
    ELSE IF Len(segs) = 1 THEN segs[1]
    ELSE segs[1] \o <<"/">> \o JoinSegs(Tail(segs))

\* the generated node-ids, with and without a leading '/'
Nodeids ==
    {lead \o JoinSegs(segs) :
        lead \in {<<>>, <<"/">>},
        segs \in UNION {[1..n -> NodeidSegs] : n \in 0..MaxSegs}}

\* the node type filters: 0 and two bitmasks
NodetypeFilters == {{}, {"LYS_LEAF"}, {"LYS_CONTAINER", "LYS_RPC", "LYS_INPUT", "LYS_NOTIF"}}

\* the calls of lysc_resolve_schema_nodeid: context_node is NULL (0), the
\* container c or the rpc r; nodeid_len is 0 or the length of a part of nodeid
ResolveArgs ==
    {a \in [op : {"args"}, nodeid : Nodeids, nodeid_len : {0, 2, 3},
            context_node : {0, 1, 4}, context_module : {"A"},
            nodetype : NodetypeFilters, res : {[ret |-> "none"]}] :
        a.nodeid_len <= Len(a.nodeid)}

\* the calls of lys_module_find_prefix: the prefix is the text before the colon
\* of a node-id, or has the length 0
FindPrefixArgs ==
    {a \in [op : {"prefix_args"}, mod : {"A", "B", "C"},
            prefix : {<<"a", ":", "l">>, <<"a", "b", ":", "l">>, <<"c", ":", "l">>,
                      <<"z", ":", "l">>, <<"a", "b", "c", ":", "l">>},
            len : 0..3, res : {"none"}] :
        a.len = 0 \/ a.len = strchr(a.prefix, ":")}

ResolveSchemaNodeid ==
    /\ nodeid_call.op = "args"
    /\ nodeid_call' =
          [nodeid_call EXCEPT
              !.op = "lysc_resolve_schema_nodeid",
              !.res = lysc_resolve_schema_nodeid(nodeid_call.nodeid, nodeid_call.nodeid_len,
                                                 nodeid_call.context_node,
                                                 nodeid_call.context_module,
                                                 nodeid_call.nodetype)]
    /\ UNCHANGED <<status_call, prefix_mod, tpdf_mod, ctx, last, compiled, loading, check_call, ident_feed, sort_call, builtin_call>>

FindPrefix ==
    /\ nodeid_call.op = "prefix_args"
    /\ nodeid_call' =
          [nodeid_call EXCEPT
              !.op = "lys_module_find_prefix",
              !.res = lys_module_find_prefix(NodeidModules, nodeid_call.mod,
                                             nodeid_call.prefix, nodeid_call.len)]
    /\ UNCHANGED <<status_call, prefix_mod, tpdf_mod, ctx, last, compiled, loading, check_call, ident_feed, sort_call, builtin_call>>

(***************************************************************************)
(* modules in a context: lysp_load_module_check, lys_module_localfile,     *)
(* lysp_load_module                                                        *)
(*                                                                         *)
(* Revisions are 1 (older) and 2 (newer); 0 stands for a NULL revision.    *)
(* The modules that can be delivered from outside the context are          *)
(*     a@1 imports b (no revision)      a@2 imports b@2                    *)
(*     b@1 imports nothing              b@2 imports a (no revision)        *)
(***************************************************************************)

\* a NULL struct lys_module pointer; modules are pointed to by name and revision
NoMod == [name |-> NULL, revision |-> 0]

\* the schema texts: name, revision, and imports with their revision-date
ModuleTexts ==
    {[name |-> "a", revision |-> 1, imports |-> <<[name |-> "b", rev |-> 0]>>],
     [name |-> "a", revision |-> 2, imports |-> <<[name |-> "b", rev |-> 2]>>],
     [name |-> "b", revision |-> 1, imports |-> <<>>],
     [name |-> "b", revision |-> 2, imports |-> <<[name |-> "a", rev |-> 0]>>]}

ModuleNames == {t.name : t \in ModuleTexts}

\* the text of the module name@revision
TextOf(key) == CHOOSE t \in ModuleTexts : t.name = key.name /\ t.revision = key.revision

\* a source of schema texts (import callback or search directories): whether
\* it is set, the texts it holds, and which of them it gives to a request:
\* the newest or the oldest that fits, or one of another name
NoSource == [set |-> FALSE, holds |-> {}, pick |-> "newest"]

Sources ==
    {NoSource,
     [set |-> TRUE, holds |-> ModuleTexts, pick |-> "newest"],
     [set |-> TRUE, holds |-> {t \in ModuleTexts : t.revision = 1}, pick |-> "newest"],
     [set |-> TRUE, holds |-> ModuleTexts, pick |-> "oldest"],
     [set |-> TRUE, holds |-> ModuleTexts, pick |-> "other"]}

\* the text the source gives for name and revision (0: any), NoMod for none
SourceAnswer(source, name, revision) ==
    LET fits == {t \in source.holds :
                    /\ (t.name = name) = (source.pick # "other")
                    /\ revision = 0 \/ t.revision = revision \/ source.pick = "other"}
    IN  IF fits = {} THEN NoMod
        ELSE LET t == IF source.pick = "oldest"
                      THEN CHOOSE x \in fits : \A y \in fits : x.revision <= y.revision
                      ELSE CHOOSE x \in fits : \A y \in fits : x.revision >= y.revision
             IN  [name |-> t.name, revision |-> t.revision]

\* the name and revision that point to the module m
ModKey(m) == [name |-> m.name, revision |-> m.revision]

\* the first module of the context list among the positions found, NoMod when
\* none was found
FirstModule(list, found) ==
    IF found = {} THEN NoMod
    ELSE ModKey(list[CHOOSE k \in found : \A j \in found : k <= j])

\* the module of the context list that key points to
ModAt(list, key) == list[CHOOSE k \in 1..Len(list) : ModKey(list[k]) = key]

\* the context list after the assignment key->field = value
SetField(list, key, field, value) ==
    [k \in 1..Len(list) |->
        IF ModKey(list[k]) = key THEN [list[k] EXCEPT ![field] = value] ELSE list[k]]

\* ly_ctx_get_module missing every module of the context
ly_ctx_get_module_absent(list, name, revision) == NoMod

\* ly_ctx_get_module(ctx, name, revision); a NULL revision asks for the module
\* without revision
ly_ctx_get_module(list, name, revision) ==
    FirstModule(list, {k \in 1..Len(list) :
                          list[k].name = name /\ list[k].revision = revision})

\* ly_ctx_get_module_implemented(ctx, name)
ly_ctx_get_module_implemented(list, name) ==
    FirstModule(list, {k \in 1..Len(list) :
                          list[k].name = name /\ list[k].implemented = 1})

\* ly_ctx_get_module_latest taking the first module of the name, whatever its
\* latest_revision flag
ly_ctx_get_module_latest_anyflag(list, name) ==
    FirstModule(list, {k \in 1..Len(list) : list[k].name = name})

\* ly_ctx_get_module_latest(ctx, name)
ly_ctx_get_module_latest(list, name) ==
    FirstModule(list, {k \in 1..Len(list) :
                          list[k].name = name /\ list[k].latest_revision # 0})

\* lysp_load_module_check testing the latest_revision flag before the name
lysp_load_module_check_flagfirst(p, info) ==
    IF info.revision = 0 /\ p.latest_revision = 0
    THEN [ret |-> "LY_EEXIST", warned |-> FALSE]
    ELSE IF info.name # NULL /\ info.name # p.name
    THEN [ret |-> "LY_EINVAL", warned |-> FALSE]
    ELSE IF info.revision # 0 /\ (p.revision = 0 \/ info.revision # p.revision)
    THEN [ret |-> "LY_EINVAL", warned |-> FALSE]
    ELSE IF p.submod /\ info.submoduleof # p.belongs_to
    THEN [ret |-> "LY_EVALID", warned |-> FALSE]
    ELSE IF p.submod /\ p.parsing
    THEN [ret |-> "LY_EVALID", warned |-> FALSE]
    ELSE [ret |-> "LY_SUCCESS",
          warned |-> /\ info.path # NoMod
                     /\ \/ info.path.name # p.name
                        \/ info.path.revision # 0 /\ info.path.revision # p.revision]

\* lysp_load_module_check(ctx, mod, submod, data) for the parsed (sub)module p:
\* its name, newest revision (0 for no revisions), latest_revision flag and,
\* for a submodule, the module it belongs to and its parsing flag. info.path
\* holds the name and revision parts of the file name, or is NoMod for NULL.
\* Gives the result and whether a warning was logged.
lysp_load_module_check(p, info) ==
    IF info.name # NULL /\ info.name # p.name
    THEN [ret |-> "LY_EINVAL", warned |-> FALSE]
    ELSE IF info.revision # 0 /\ (p.revision = 0 \/ info.revision # p.revision)
    THEN [ret |-> "LY_EINVAL", warned |-> FALSE]
    ELSE IF info.revision = 0 /\ p.latest_revision = 0
    THEN [ret |-> "LY_EEXIST", warned |-> FALSE]
    ELSE IF p.submod /\ info.submoduleof # p.belongs_to
    THEN [ret |-> "LY_EVALID", warned |-> FALSE]
    ELSE IF p.submod /\ p.parsing
    THEN [ret |-> "LY_EVALID", warned |-> FALSE]
    ELSE [ret |-> "LY_SUCCESS",
          warned |-> /\ info.path # NoMod
                     /\ \/ info.path.name # p.name
                        \/ info.path.revision # 0 /\ info.path.revision # p.revision]

\* struct lysp_load_module_check_data for a module
CheckData(name, revision, path) ==
    [name |-> name, revision |-> revision, path |-> path, submoduleof |-> NULL]

\* what lysp_load_module_check reads of a parsed module
CheckedModule(m) ==
    [submod |-> FALSE, name |-> m.name, revision |-> m.revision,
     latest_revision |-> m.latest_revision, belongs_to |-> NULL, parsing |-> FALSE]

\* the context list without the module key points to (ly_set_rm)
RemoveModule(list, key) == SelectSeq(list, LAMBDA m : ModKey(m) # key)

\* an implemented module of the name other than mod is in the context
\* (lysp_load_module without this check)
OtherImplemented_unchecked(list, name, mod) == FALSE

\* m = ly_ctx_get_module_implemented(ctx, name); m && m != *mod
OtherImplemented(list, name, mod) ==
    LET m == ly_ctx_get_module_implemented(list, name)
    IN  m # NoMod /\ m # mod

RECURSIVE lysp_load_module(_, _, _, _, _, _)
RECURSIVE lys_module_localfile(_, _, _, _, _)
\* the trace of a lysp_load_module call: one event for the call, one for each
\* import callback or search directory consulted and one for the return, each
\* with the depth of the call it belongs to (1 for the outermost call)
TraceDepth(trace) ==
    Cardinality({i \in 1..Len(trace) : trace[i].source = "call"})
        - Cardinality({i \in 1..Len(trace) : trace[i].source = "return"})

\* an event of the trace; found is the module of the context the call was
\* answered with at its start and parsing its parsed->parsing flag then
TraceEvent(source, name, revision, depth) ==
    [source |-> source, name |-> name, revision |-> revision, depth |-> depth,
     ret |-> "none", mod |-> NoMod, found |-> NoMod, parsing |-> FALSE]

\* lysp_load_module is entered in the state s
Called(s, name, revision) ==
    [list |-> s.list,
     trace |-> Append(s.trace, TraceEvent("call", name, revision, TraceDepth(s.trace) + 1))]

\* the import callback or the search directories are consulted
Consulted(trace, source, name, revision) ==
    Append(trace, TraceEvent(source, name, revision, TraceDepth(trace)))

\* lysp_load_module returns r
Returned(r, name, revision, found, parsing) ==
    [r EXCEPT !.trace =
        Append(r.trace, [TraceEvent("return", name, revision, TraceDepth(r.trace))
                             EXCEPT !.ret = r.ret, !.mod = r.mod,
                                    !.found = found, !.parsing = parsing])]

RECURSIVE lys_create_module(_, _, _, _, _)
RECURSIVE ResolveImports(_, _, _, _)

\* lys_create_module(ctx, in, format, implement, custom_check, check_data,
\* &module) for the input text, in the context e (flags, import callback,
\* search directories) with the state s (module list, trace of the calls)
lys_create_module(e, s, text, implement, check_data) ==
    LET latest_in_ctx == ly_ctx_get_module_latest(s.list, text.name)
        newer == /\ latest_in_ctx # NoMod
                 /\ latest_in_ctx.revision = 0 \/ text.revision > latest_in_ctx.revision
        latest == IF newer THEN latest_in_ctx ELSE NoMod
        mod == [name |-> text.name, revision |-> text.revision,
                implemented |-> IF implement THEN 1 ELSE 0,
                latest_revision |-> IF latest_in_ctx = NoMod THEN 1
                                    ELSE IF newer
                                    THEN ModAt(s.list, latest_in_ctx).latest_revision
                                    ELSE 0,
                parsed |-> TRUE, parsing |-> TRUE]
        check == lysp_load_module_check(CheckedModule(mod), check_data)
        mod_dup == ly_ctx_get_module(s.list, text.name, text.revision)
        error(ret) == [list |-> s.list, trace |-> s.trace, ret |-> ret, mod |-> NoMod]
    IN  IF check.ret # "LY_SUCCESS" THEN error(check.ret)
        ELSE IF implement /\ ly_ctx_get_module_implemented(s.list, text.name) # NoMod
        THEN error("LY_EDENIED")
        ELSE IF mod_dup # NoMod /\ ModAt(s.list, mod_dup).parsed
        THEN error("LY_EEXIST")
        ELSE
        LET added == IF mod_dup # NoMod
                     THEN SetField(SetField(s.list, mod_dup, "parsed", TRUE),
                                   mod_dup, "parsing", TRUE)
                     ELSE Append(IF latest # NoMod
                                 THEN SetField(s.list, latest, "latest_revision", 0)
                                 ELSE s.list, mod)
        IN  CHOOSE created \in
                {IF imports.ret # "LY_SUCCESS"
                 THEN [list |-> RemoveModule(imports.list, ModKey(mod)),
                       trace |-> imports.trace, ret |-> imports.ret, mod |-> NoMod]
                 ELSE [list |-> SetField(imports.list, ModKey(mod), "parsing", FALSE),
                       trace |-> imports.trace, ret |-> "LY_SUCCESS",
                       mod |-> ModKey(mod)] :
                    imports \in {ResolveImports(e, [list |-> added, trace |-> s.trace],
                                                text.imports, 1)}} : TRUE

\* lys_create_module: the imports from position u on are loaded with
\* lysp_load_module(ctx, imp->name, imp->rev, 0, 0, &imp->module)
ResolveImports(e, s, imports, u) ==
    IF u > Len(imports)
    THEN [list |-> s.list, trace |-> s.trace, ret |-> "LY_SUCCESS"]
    ELSE CHOOSE resolved \in
             {IF imp.ret # "LY_SUCCESS"
              THEN [list |-> imp.list, trace |-> imp.trace, ret |-> imp.ret]
              ELSE ResolveImports(e, [list |-> imp.list, trace |-> imp.trace],
                                  imports, u + 1) :
                 imp \in {lysp_load_module(e, s, imports[u].name, imports[u].rev,
                                           FALSE, FALSE)}} : TRUE

\* lys_module_localfile(ctx, name, revision, implement, NULL, NULL, required,
\* &result): the search directories are searched for the file of the module
lys_module_localfile(e, s, name, revision, implement) ==
    LET filepath == SourceAnswer(e.searchdirs, name, revision)
        searched == [list |-> s.list,
                     trace |-> Consulted(s.trace, "searchdirs", name, revision)]
    IN  IF filepath = NoMod
        THEN [list |-> s.list, trace |-> searched.trace,
              ret |-> "LY_ENOTFOUND", mod |-> NoMod]
        ELSE lys_create_module(e, searched, TextOf(filepath), implement,
                               CheckData(name, revision,
                                         [name |-> name, revision |-> revision]))

\* lysp_load_module, search_clb: the import callback, when one is set, is asked
\* for the module and its answer goes to lys_create_module; t is the module
\* list, the trace and *mod
SearchClb(e, t, name, revision, implement) ==
    IF ~e.imp_clb.set THEN t
    ELSE LET module_data == SourceAnswer(e.imp_clb, name, revision)
             called == [list |-> t.list,
                        trace |-> Consulted(t.trace, "imp_clb", name, revision)]
         IN  IF module_data = NoMod
             THEN [list |-> t.list, trace |-> called.trace, mod |-> NoMod]
             ELSE CHOOSE loaded \in
                      {[list |-> created.list, trace |-> created.trace,
                        mod |-> created.mod] :
                          created \in {lys_create_module(e, called, TextOf(module_data),
                                                         implement,
                                                         CheckData(name, revision, NoMod))}} :
                      TRUE

\* search_file without the test of LY_CTX_DISABLE_SEARCHDIRS
SearchFile_always(e, t, name, revision, implement) ==
    CHOOSE loaded \in
        {[list |-> found.list, trace |-> found.trace, mod |-> found.mod] :
            found \in {lys_module_localfile(e, t, name, revision, implement)}} : TRUE

\* lysp_load_module, search_file: the search directories, unless disabled, are
\* searched with lys_module_localfile
SearchFile(e, t, name, revision, implement) ==
    IF "LY_CTX_DISABLE_SEARCHDIRS" \in e.flags THEN t
    ELSE CHOOSE loaded \in
             {[list |-> found.list, trace |-> found.trace, mod |-> found.mod] :
                 found \in {lys_module_localfile(e, t, name, revision, implement)}} : TRUE

\* the update of the latest_revision flag without the test of the revision
UpdateLatest_anyrevision(t, m, revision) ==
    IF t.mod = NoMod /\ m # NoMod
    THEN [t EXCEPT !.list = SetField(t.list, m, "latest_revision", 2), !.mod = m]
    ELSE IF t.mod # NoMod /\ ModAt(t.list, t.mod).latest_revision = 1
    THEN [t EXCEPT !.list = SetField(t.list, t.mod, "latest_revision", 2)]
    ELSE t

\* lysp_load_module: the update of the latest_revision flag after the search
\* outside the context; m is the latest module in the context when a newer
\* one was searched for, t the state after the search
UpdateLatest(t, m, revision) ==
    IF t.mod = NoMod /\ m # NoMod
    THEN [t EXCEPT !.list = SetField(t.list, m, "latest_revision", 2), !.mod = m]
    ELSE IF t.mod # NoMod /\ revision = 0 /\ ModAt(t.list, t.mod).latest_revision = 1
    THEN [t EXCEPT !.list = SetField(t.list, t.mod, "latest_revision", 2)]
    ELSE t

\* the end of the function that leaves the implemented flag as it is
LoadEnd_flagkept(t, implement) ==
    IF t.mod = NoMod
    THEN [list |-> t.list, trace |-> t.trace, ret |-> "LY_EVALID", mod |-> NoMod]
    ELSE [list |-> t.list, trace |-> t.trace, ret |-> "LY_SUCCESS", mod |-> t.mod]

\* lysp_load_module: the end of the function for the state t with *mod
LoadEnd(t, implement) ==
    IF t.mod = NoMod
    THEN [list |-> t.list, trace |-> t.trace, ret |-> "LY_EVALID", mod |-> NoMod]
    ELSE [list |-> IF implement THEN SetField(t.list, t.mod, "implemented", 1) ELSE t.list,
          trace |-> t.trace, ret |-> "LY_SUCCESS", mod |-> t.mod]

\* lysp_load_module, the module taken from the context: implement with
\* LY_CTX_ALLIMPLEMENTED counted in, the implemented module of the name, the
\* module the context answers the request with (found), the latest module m
\* put aside while a newer one is searched outside, *mod after the lookup
\* (in_ctx), and whether the module has to be searched outside the context
ContextLookup(e, s, name, revision, implement_arg, require_parsed) ==
    LET implement == implement_arg \/ "LY_CTX_ALLIMPLEMENTED" \in e.flags
        implemented == ly_ctx_get_module_implemented(s.list, name)
        latest == ly_ctx_get_module_latest(s.list, name)
        found == IF revision # 0 THEN ly_ctx_get_module(s.list, name, revision)
                 ELSE IF implement /\ implemented # NoMod THEN implemented
                 ELSE latest
        \* a newer revision than the latest of the context is searched outside
        recheck == /\ revision = 0
                   /\ ~(implement /\ implemented # NoMod)
                   /\ latest # NoMod
                   /\ ModAt(s.list, latest).latest_revision = 1
        in_ctx == IF recheck THEN NoMod ELSE found
    IN  [implement |-> implement, implemented |-> implemented, found |-> found,
         parsing |-> found # NoMod /\ ModAt(s.list, found).parsed
                         /\ ModAt(s.list, found).parsing,
         m |-> IF recheck THEN latest ELSE NoMod, in_ctx |-> in_ctx,
         search |-> in_ctx = NoMod \/ (require_parsed /\ ~ModAt(s.list, in_ctx).parsed)]

\* lysp_load_module(ctx, name, revision, implement, require_parsed, &mod) with
\* *mod NULL at the call: the module list after the call, the sources
\* consulted and the calls made (trace), the return value and *mod
lysp_load_module(e, s, name, revision, implement_arg, require_parsed) ==
    LET c == ContextLookup(e, s, name, revision, implement_arg, require_parsed)
        prefer == "LY_CTX_PREFER_SEARCHDIRS" \in e.flags
        entered == Called(s, name, revision)
        start == [list |-> s.list, trace |-> entered.trace, mod |-> NoMod]
        denied == [list |-> s.list, trace |-> entered.trace, ret |-> "LY_EDENIED",
                   mod |-> NoMod]
    IN  CHOOSE out \in
          {Returned(r, name, revision, c.found, c.parsing) :
           r \in
            {IF c.search
             THEN IF c.implement /\ c.implemented # NoMod THEN denied
                  ELSE CHOOSE loaded \in
                      {LoadEnd(UpdateLatest(second, c.m, revision), c.implement) :
                          second \in UNION
                              {{IF first.mod # NoMod THEN first
                                ELSE IF prefer
                                THEN SearchClb(e, first, name, revision, c.implement)
                                ELSE SearchFile(e, first, name, revision, c.implement)} :
                                  first \in {IF prefer
                                             THEN SearchFile(e, start, name, revision,
                                                             c.implement)
                                             ELSE SearchClb(e, start, name, revision,
                                                            c.implement)}}} :
                      TRUE
             ELSE IF c.implement /\ OtherImplemented(s.list, name, c.in_ctx) THEN denied
             ELSE IF ModAt(s.list, c.in_ctx).parsed /\ ModAt(s.list, c.in_ctx).parsing
             THEN [list |-> s.list, trace |-> entered.trace, ret |-> "LY_EVALID",
                   mod |-> NoMod]
             ELSE LoadEnd([start EXCEPT !.mod = c.in_ctx], c.implement)}} : TRUE

(***************************************************************************)
(* operations on the context                                               *)
(***************************************************************************)

\* the flags of a context
ContextFlags ==
    {{}, {"LY_CTX_ALLIMPLEMENTED"}, {"LY_CTX_PREFER_SEARCHDIRS"},
     {"LY_CTX_DISABLE_SEARCHDIRS"}}

\* the search directories of a context
SearchdirSources == {x \in Sources : x.pick = "newest"}

\* the largest number of lysp_load_module calls made on a context
MaxCalls == 3

\* a new context without modules; calls counts the lysp_load_module calls made
NewContexts ==
    [list : {<<>>}, flags : ContextFlags, imp_clb : Sources, searchdirs : SearchdirSources,
     calls : {0}]

\* lysp_load_module is called for a module; repeat_of is the module the call
\* before returned when that call had the same arguments and succeeded
LoadModule ==
    /\ ctx.calls < MaxCalls
    /\ \E name \in ModuleNames, revision \in 0..2, implement \in BOOLEAN,
          require_parsed \in BOOLEAN :
        \E loaded \in {lysp_load_module(ctx, [list |-> ctx.list, trace |-> <<>>],
                                         name, revision, implement, require_parsed)} :
            /\ ctx' = [ctx EXCEPT !.list = loaded.list, !.calls = ctx.calls + 1]
            /\ last' = [op |-> "lysp_load_module", name |-> name, revision |-> revision,
                        implement |-> implement, require_parsed |-> require_parsed,
                        before |-> ctx.list, ret |-> loaded.ret, mod |-> loaded.mod,
                        trace |-> loaded.trace,
                        repeat_of |-> IF /\ last.op = "lysp_load_module"
                                         /\ last.ret = "LY_SUCCESS"
                                         /\ last.name = name /\ last.revision = revision
                                         /\ last.implement = implement
                                         /\ last.require_parsed = require_parsed
                                      THEN last.mod ELSE NoMod]
            /\ UNCHANGED <<status_call, prefix_mod, tpdf_mod, nodeid_call, compiled, loading, check_call, ident_feed, sort_call, builtin_call>>

\* an implemented module is compiled and its parsed tree is freed
\* (LYSC_OPT_FREE_SP)
FreeParsed ==
    \E k \in 1..Len(ctx.list) :
        /\ ctx.list[k].implemented = 1
        /\ ctx.list[k].parsed
        /\ ctx' = [ctx EXCEPT !.list[k].parsed = FALSE]
        /\ last' = [op |-> "lys_compile"]
        /\ UNCHANGED <<status_call, prefix_mod, tpdf_mod, nodeid_call, compiled, loading, check_call, ident_feed, sort_call, builtin_call>>

\* the parsed modules and submodules lysp_load_module_check is called for
ParsedForCheck ==
    [submod : {FALSE}, name : ModuleNames, revision : 0..2, latest_revision : 0..2,
     belongs_to : {NULL}, parsing : {FALSE}]
    \cup [submod : {TRUE}, name : ModuleNames, revision : 0..2, latest_revision : 0..2,
          belongs_to : ModuleNames, parsing : BOOLEAN]

\* the file names: none, or the name and revision parts of the name
CheckPaths == {NoMod} \cup [name : ModuleNames, revision : 0..2]

\* the check data lysp_load_module_check is called with for p; submoduleof is
\* set for a submodule
CheckDataFor(p) ==
    [name : ModuleNames \cup {NULL}, revision : 0..2, path : CheckPaths,
     submoduleof : IF p.submod THEN ModuleNames ELSE {NULL}]

\* lysp_load_module_check is called with the arguments drawn
CheckLoadedModule ==
    /\ check_call.op = "args"
    /\ \E checked \in {lysp_load_module_check(check_call.p, check_call.info)} :
        check_call' = [op |-> "lysp_load_module_check", p |-> check_call.p,
                       info |-> check_call.info, ret |-> checked.ret,
                       warned |-> checked.warned]
    /\ UNCHANGED <<status_call, prefix_mod, tpdf_mod, nodeid_call, ctx, last, compiled, loading, ident_feed, sort_call, builtin_call>>

(***************************************************************************)
(* lysp_load_module followed label by label                                *)
(***************************************************************************)

\* the largest number of lysp_load_module calls followed label by label
MaxLoads == 2

\* the labels of a call that is under way
SearchLabels == {"search_clb", "search_file", "update"}

\* lysp_load_module is entered: the module is looked up in the context; the
\* call returns at once when the context has the module or the load is
\* denied, and goes to the first source otherwise.  visited lists the labels
\* passed with *mod after each
EnterLoad ==
    /\ loading.pc \in {"none", "return"}
    /\ ctx.calls < MaxLoads
    /\ \E name \in ModuleNames, revision \in 0..2, implement_arg \in BOOLEAN,
          require_parsed \in BOOLEAN :
        LET s == [list |-> ctx.list, trace |-> <<>>]
            c == ContextLookup(ctx, s, name, revision, implement_arg, require_parsed)
            call == [pc |-> "return", name |-> name, revision |-> revision,
                     implement_arg |-> implement_arg, require_parsed |-> require_parsed,
                     implement |-> c.implement, m |-> c.m, found |-> c.found,
                     parsing |-> c.parsing, before |-> ctx.list, searched |-> FALSE,
                     t |-> [list |-> ctx.list, trace |-> Called(s, name, revision).trace,
                            mod |-> NoMod],
                     ret |-> "none", visited |-> <<>>]
        IN  IF c.search /\ ~(c.implement /\ c.implemented # NoMod)
            THEN /\ loading' = [call EXCEPT
                                  !.pc = IF "LY_CTX_PREFER_SEARCHDIRS" \in ctx.flags
                                         THEN "search_file" ELSE "search_clb",
                                  !.searched = TRUE]
                 /\ ctx' = [ctx EXCEPT !.calls = ctx.calls + 1]
            ELSE \E r \in {lysp_load_module(ctx, s, name, revision, implement_arg,
                                            require_parsed)} :
                 /\ loading' = [call EXCEPT !.ret = r.ret,
                                  !.t = [list |-> r.list, trace |-> r.trace, mod |-> r.mod]]
                 /\ ctx' = [ctx EXCEPT !.list = r.list, !.calls = ctx.calls + 1]
    /\ UNCHANGED <<status_call, prefix_mod, tpdf_mod, nodeid_call, last, compiled, check_call, ident_feed, sort_call, builtin_call>>

\* search_clb: the import callback is asked; without a module and without
\* LY_CTX_PREFER_SEARCHDIRS the call goes to search_file
StepSearchClb ==
    /\ loading.pc = "search_clb"
    /\ \E t \in {SearchClb(ctx, loading.t, loading.name, loading.revision,
                           loading.implement)} :
        /\ loading' = [loading EXCEPT
                         !.t = t,
                         !.visited = Append(@, [label |-> "search_clb", mod |-> t.mod]),
                         !.pc = IF t.mod = NoMod /\ "LY_CTX_PREFER_SEARCHDIRS" \notin ctx.flags
                                THEN "search_file" ELSE "update"]
        /\ ctx' = [ctx EXCEPT !.list = t.list]
    /\ UNCHANGED <<status_call, prefix_mod, tpdf_mod, nodeid_call, last, compiled, check_call, ident_feed, sort_call, builtin_call>>

\* search_file: the search directories are searched; without a module and
\* with LY_CTX_PREFER_SEARCHDIRS the call goes to search_clb
StepSearchFile ==
    /\ loading.pc = "search_file"
    /\ \E t \in {SearchFile(ctx, loading.t, loading.name, loading.revision,
                            loading.implement)} :
        /\ loading' = [loading EXCEPT
                         !.t = t,
                         !.visited = Append(@, [label |-> "search_file", mod |-> t.mod]),
                         !.pc = IF t.mod = NoMod /\ "LY_CTX_PREFER_SEARCHDIRS" \in ctx.flags
                                THEN "search_clb" ELSE "update"]
        /\ ctx' = [ctx EXCEPT !.list = t.list]
    /\ UNCHANGED <<status_call, prefix_mod, tpdf_mod, nodeid_call, last, compiled, check_call, ident_feed, sort_call, builtin_call>>

\* after the sources: the latest_revision flag is updated, the module is
\* marked implemented and the call returns
StepReturn ==
    /\ loading.pc = "update"
    /\ \E r \in {Returned(LoadEnd(UpdateLatest(loading.t, loading.m, loading.revision),
                                  loading.implement),
                          loading.name, loading.revision, loading.found,
                          loading.parsing)} :
        /\ loading' = [loading EXCEPT
                         !.t = [list |-> r.list, trace |-> r.trace, mod |-> r.mod],
                         !.ret = r.ret, !.pc = "return"]
        /\ ctx' = [ctx EXCEPT !.list = r.list]
    /\ UNCHANGED <<status_call, prefix_mod, tpdf_mod, nodeid_call, last, compiled, check_call, ident_feed, sort_call, builtin_call>>

\* between two calls an implemented module is compiled and its parsed tree
\* is freed
FreeParsedBetweenLoads ==
    /\ loading.pc \in {"none", "return"}
    /\ \E k \in 1..Len(ctx.list) :
        /\ ctx.list[k].implemented = 1
        /\ ctx.list[k].parsed
        /\ ctx' = [ctx EXCEPT !.list[k].parsed = FALSE]
    /\ UNCHANGED <<status_call, prefix_mod, tpdf_mod, nodeid_call, last, compiled, loading, check_call, ident_feed, sort_call, builtin_call>>

(***************************************************************************)
(* identifiers with a prefix: lysp_check_identifierchar                    *)
(***************************************************************************)

\* lysp_check_identifierchar taking ':' with any value of the tracker but 1
lysp_check_identifierchar_anycolon(c, first, has_prefix, prefix) ==
    IF first \/ (has_prefix /\ prefix = 1)
    THEN IF ~is_yangidentstartchar(c)
         THEN [ret |-> "LY_EVALID", prefix |-> prefix]
         ELSE [ret |-> "LY_SUCCESS",
               prefix |-> IF has_prefix THEN (IF first THEN 0 ELSE 2) ELSE prefix]
    ELSE IF c = ":" /\ has_prefix
    THEN [ret |-> "LY_SUCCESS", prefix |-> 1]
    ELSE IF ~is_yangidentchar(c)
    THEN [ret |-> "LY_EVALID", prefix |-> prefix]
    ELSE [ret |-> "LY_SUCCESS", prefix |-> prefix]

\* lysp_check_identifierchar(ctx, c, first, prefix): has_prefix tells whether
\* the pointer prefix is set, prefix is *prefix; the return value and *prefix
\* after the call
lysp_check_identifierchar(c, first, has_prefix, prefix) ==
    IF first \/ (has_prefix /\ prefix = 1)
    THEN IF ~is_yangidentstartchar(c)
         THEN [ret |-> "LY_EVALID", prefix |-> prefix]
         ELSE [ret |-> "LY_SUCCESS",
               prefix |-> IF has_prefix THEN (IF first THEN 0 ELSE 2) ELSE prefix]
    ELSE IF c = ":" /\ has_prefix /\ prefix = 0
    THEN [ret |-> "LY_SUCCESS", prefix |-> 1]
    ELSE IF ~is_yangidentchar(c)
    THEN [ret |-> "LY_EVALID", prefix |-> prefix]
    ELSE [ret |-> "LY_SUCCESS", prefix |-> prefix]

\* the characters of the strings checked
IdentChars == {"a", "1", "-", ":", "/"}

\* the largest length of a string checked
MaxIdentLen == 4

\* the strings checked
IdentTexts == UNION {[1..n -> IdentChars] : n \in 1..MaxIdentLen}

\* a caller that is about to check a string character by character: the
\* tracker, when there is one, holds any value before the first character.
\* steps lists the calls made: character, first, *prefix before and after,
\* return value
NewIdentFeeds ==
    {[op |-> "feed", text |-> text, has_prefix |-> has_prefix, prefix |-> prefix,
      pos |-> 0, ret |-> "none", steps |-> <<>>] :
        text \in IdentTexts, has_prefix \in BOOLEAN, prefix \in 0..3}

\* the next character of the string is checked; the caller stops at the first
\* character that is rejected
CheckNextChar ==
    /\ ident_feed.op = "feed"
    /\ ident_feed.pos < Len(ident_feed.text)
    /\ ident_feed.ret # "LY_EVALID"
    /\ LET c == ident_feed.text[ident_feed.pos + 1]
           first == ident_feed.pos = 0
           r == lysp_check_identifierchar(c, first, ident_feed.has_prefix,
                                          ident_feed.prefix)
       IN  ident_feed' =
               [ident_feed EXCEPT
                   !.pos = @ + 1, !.ret = r.ret, !.prefix = r.prefix,
                   !.steps = Append(@, [c |-> c, first |-> first,
                                        before |-> ident_feed.prefix,
                                        after |-> r.prefix, ret |-> r.ret])]
    /\ UNCHANGED <<status_call, prefix_mod, tpdf_mod, nodeid_call, ctx, last, compiled, loading,
                   check_call, sort_call, builtin_call>>

(***************************************************************************)
(* revisions: lysp_sort_revisions                                          *)
(***************************************************************************)

\* the loop of lysp_sort_revisions taking a later entry of the same date too
RECURSIVE NewestRevision_orequal(_, _, _)
NewestRevision_orequal(revs, i, r) ==
    IF i > Len(revs) THEN r
    ELSE NewestRevision_orequal(revs, i + 1, IF revs[i].date >= revs[r].date THEN i ELSE r)

\* lysp_sort_revisions, the loop: i is the position looked at and r the
\* position of the newest date so far (positions counted from 1); strcmp of
\* two dates is the order of the dates
RECURSIVE NewestRevision(_, _, _)
NewestRevision(revs, i, r) ==
    IF i > Len(revs) THEN r
    ELSE NewestRevision(revs, i + 1, IF revs[i].date > revs[r].date THEN i ELSE r)

\* lysp_sort_revisions(revs): the array after the call; <<>> is the NULL array
lysp_sort_revisions(revs) ==
    IF revs = <<>> THEN revs
    ELSE LET r == NewestRevision(revs, 2, 1)
         IN  IF r # 1
             THEN [revs EXCEPT ![1] = revs[r], ![r] = revs[1]]
             ELSE revs

\* the largest number of revisions of a module
MaxRevs == 4

\* the dates of the revisions
RevDates == 1..3

\* the revision arrays of a parsed module: the description tells the entries
\* of one date apart
RevisionArrays ==
    UNION {{[k \in 1..n |-> [date |-> dates[k], dsc |-> k]] : dates \in [1..n -> RevDates]} :
              n \in 0..MaxRevs}

\* lysp_sort_revisions is called for the array drawn
SortRevisions ==
    /\ sort_call.op = "args"
    /\ sort_call' = [op |-> "lysp_sort_revisions", before |-> sort_call.revs,
                     revs |-> lysp_sort_revisions(sort_call.revs)]
    /\ UNCHANGED <<status_call, prefix_mod, tpdf_mod, nodeid_call, ctx, last, compiled, loading,
                   check_call, ident_feed, builtin_call>>

(***************************************************************************)
(* NACM extension plugin: nacm_compile                                     *)
(***************************************************************************)

\* the compiled schema tree the extension instances are attached to:
\*   container c (1) { leaf l1 (2); list ls (3) { leaf l2 (4) }; action a (8) }
\*   notification n (5) { leaf l3 (6) }     rpc r (7)
CNodes == 1..8

CNodeType ==
    <<"LYS_CONTAINER", "LYS_LEAF", "LYS_LIST", "LYS_LEAF", "LYS_NOTIF", "LYS_LEAF",
      "LYS_RPC", "LYS_ACTION">>

\* lysc_node_children(node, 0): the data children, in order
CNodeChildren == <<<<2, 3>>, <<>>, <<4>>, <<>>, <<6>>, <<>>, <<>>, <<>>>>

\* parent of a node in the data tree (0 for a top-level node); the action is
\* kept in the actions of its container
CNodeParent == <<0, 1, 1, 3, 0, 5, 0, 1>>

\* the order in which the extension instances of the nodes are compiled: those
\* of a node after the node's children are compiled
CompileOrder == <<2, 4, 3, 8, 1, 6, 5, 7>>

\* extension definitions with the plugin that handles their instances
NacmExts ==
    {[name |-> "default-deny-write", plugin |-> "nacm_plugin"],
     [name |-> "default-deny-all", plugin |-> "nacm_plugin"]}

OtherExts == {[name |-> "annotation", plugin |-> "metadata_plugin"]}

\* arguments of an extension instance (NULL for none)
ExtArguments == {NULL, "x"}

\* c_ext->data: NULL, &nacm_deny_all, &nacm_deny_write
nacm_deny_all == 1
nacm_deny_write == 2

\* a compiled extension instance before its plugin ran
NewExtInstance(def, argument, parent, parent_type) ==
    [def |-> def, argument |-> argument, data |-> 0, parent |-> parent,
     parent_type |-> parent_type]

\* nacm_compile inheriting to the children of the parent only
RECURSIVE NacmInherit_childrenonly(_, _, _)
NacmInherit_childrenonly(exts, c_ext, todo) ==
    IF todo = <<>> THEN exts
    ELSE IF \E u \in 1..Len(exts[Head(todo)]) : exts[Head(todo)][u].def = c_ext.def
    THEN NacmInherit_childrenonly(exts, c_ext, Tail(todo))
    ELSE NacmInherit_childrenonly(
             [exts EXCEPT ![Head(todo)] =
                 Append(@, [def |-> c_ext.def, argument |-> c_ext.argument,
                            data |-> c_ext.data, parent |-> Head(todo),
                            parent_type |-> "LYEXT_PAR_NODE"])],
             c_ext, Tail(todo))

\* nacm_compile, LYSC_TREE_DFS over the nodes still to visit (the first is
\* iter): a node with an instance of the same definition is skipped with its
\* subtree, any other node gets a duplicate of c_ext and its children follow
RECURSIVE NacmInherit(_, _, _)
NacmInherit(exts, c_ext, todo) ==
    IF todo = <<>> THEN exts
    ELSE LET iter == Head(todo)
         IN  IF \E u \in 1..Len(exts[iter]) : exts[iter][u].def = c_ext.def
             THEN NacmInherit(exts, c_ext, Tail(todo))
             ELSE NacmInherit(
                      [exts EXCEPT ![iter] =
                          Append(@, [def |-> c_ext.def,
                                     argument |-> IF c_ext.argument # NULL
                                                  THEN c_ext.argument ELSE NULL,
                                     data |-> c_ext.data, parent |-> iter,
                                     parent_type |-> "LYEXT_PAR_NODE"])],
                      c_ext, CNodeChildren[iter] \o Tail(todo))

\* the node types nacm_compile accepts as the parent of an instance
NacmParents ==
    {"LYS_CONTAINER", "LYS_LEAF", "LYS_LEAFLIST", "LYS_LIST", "LYS_CHOICE", "LYS_ANYDATA",
     "LYS_CASE", "LYS_RPC", "LYS_ACTION", "LYS_NOTIF"}

\* nacm_compile taking every accepted node type as a place for both extensions
NacmInvalidParent_anyflag(data, nodetype) == nodetype \notin NacmParents

\* nacm_compile, invalid_parent: the node type is none of the accepted ones, or
\* default-deny-write is placed in an rpc, an action or a notification
NacmInvalidParent(data, nodetype) ==
    \/ nodetype \notin NacmParents
    \/ data = nacm_deny_write /\ nodetype \in {"LYS_RPC", "LYS_ACTION", "LYS_NOTIF"}

\* the check for duplication comparing the definitions, not their plugin
NacmDuplicated_samedef(node_exts, u) ==
    \E v \in 1..Len(node_exts) : v # u /\ node_exts[v].def = node_exts[u].def

\* nacm_compile, check for duplication: another instance of the node is handled
\* by the plugin of the instance at position u
NacmDuplicated(node_exts, u) ==
    \E v \in 1..Len(node_exts) :
        v # u /\ node_exts[v].def.plugin = node_exts[u].def.plugin

\* nacm_compile(cctx, p_ext, c_ext) for the instance c_ext, which for a node
\* parent is exts[c_ext.parent][u]: the return value, the instance with its
\* data, and the extension instances of the nodes after the call
nacm_compile(exts, c_ext, u) ==
    IF c_ext.def.name \notin {"default-deny-write", "default-deny-all"}
    THEN [ret |-> "LY_EINT", c_ext |-> c_ext, exts |-> exts]
    ELSE
    LET flagged == [c_ext EXCEPT !.data = IF c_ext.def.name = "default-deny-write"
                                          THEN nacm_deny_write ELSE nacm_deny_all]
        parent == c_ext.parent
    IN  IF c_ext.parent_type # "LYEXT_PAR_NODE"
        THEN [ret |-> "LY_EVALID", c_ext |-> flagged, exts |-> exts]
        ELSE
        LET stored == [exts EXCEPT ![parent][u] = flagged]
            invalid == [ret |-> "LY_EVALID", c_ext |-> flagged, exts |-> stored]
        IN  IF NacmInvalidParent(flagged.data, CNodeType[parent]) THEN invalid
            ELSE IF NacmDuplicated(stored[parent], u) THEN invalid
            ELSE [ret |-> "LY_SUCCESS", c_ext |-> flagged,
                  exts |-> NacmInherit(stored, flagged, CNodeChildren[parent])]

\* the largest number of extension instances in the compiled module
MaxExtInstances == 3

\* a module whose nodes are compiled and whose extension instances are not:
\* at is the position in CompileOrder, count the number of instances compiled,
\* call the last nacm_compile call with the instances before it
NewCompiled ==
    [op |-> "compile", exts |-> [n \in CNodes |-> <<>>], at |-> 1, count |-> 0,
     call |-> [ret |-> "none"]]

\* lys_compile_ext for the next extension instance of the node being finished:
\* the instance is added to the node's exts and the plugin's compile callback,
\* when the definition has one of this plugin, is called
CompileNodeExt ==
    /\ compiled.op = "compile"
    /\ compiled.at <= Len(CompileOrder)
    /\ compiled.count < MaxExtInstances
    /\ \E def \in NacmExts \cup OtherExts, argument \in ExtArguments :
        LET node == CompileOrder[compiled.at]
            c_ext == NewExtInstance(def, argument, node, "LYEXT_PAR_NODE")
            added == [compiled.exts EXCEPT ![node] = Append(@, c_ext)]
            u == Len(added[node])
        IN  /\ def \in OtherExts => argument = "x"
            /\ IF def.plugin = "nacm_plugin"
               THEN \E r \in {nacm_compile(added, c_ext, u)} :
                        compiled' =
                            [compiled EXCEPT
                                !.op = IF r.ret = "LY_SUCCESS" THEN "compile" ELSE "failed",
                                !.exts = r.exts, !.count = @ + 1,
                                !.call = [ret |-> r.ret, c_ext |-> r.c_ext, u |-> u,
                                          before |-> added]]
               ELSE compiled' = [compiled EXCEPT !.exts = added, !.count = @ + 1]
    /\ UNCHANGED <<status_call, prefix_mod, tpdf_mod, nodeid_call, ctx, last, loading, check_call, ident_feed, sort_call, builtin_call>>

\* lys_compile_ext for an extension instance in a statement that is no schema
\* node (the module, an import, a type, ...)
CompileStatementExt ==
    /\ compiled.op = "compile"
    /\ compiled.count < MaxExtInstances
    /\ \E def \in NacmExts, argument \in ExtArguments,
          parent_type \in {"LYEXT_PAR_MODULE", "LYEXT_PAR_TYPE"} :
        \E r \in {nacm_compile(compiled.exts,
                                NewExtInstance(def, argument, 0, parent_type), 1)} :
            compiled' =
                [compiled EXCEPT
                    !.op = IF r.ret = "LY_SUCCESS" THEN "compile" ELSE "failed",
                    !.exts = r.exts, !.count = @ + 1,
                    !.call = [ret |-> r.ret, c_ext |-> r.c_ext, u |-> 1,
                              before |-> compiled.exts]]
    /\ UNCHANGED <<status_call, prefix_mod, tpdf_mod, nodeid_call, ctx, last, loading, check_call, ident_feed, sort_call, builtin_call>>

\* the extension instances of the node are compiled; the next node is finished
CompileNextNode ==
    /\ compiled.op = "compile"
    /\ compiled.at <= Len(CompileOrder)
    /\ compiled' = [compiled EXCEPT !.at = @ + 1]
    /\ UNCHANGED <<status_call, prefix_mod, tpdf_mod, nodeid_call, ctx, last, loading, check_call, ident_feed, sort_call, builtin_call>>

(***************************************************************************)
(* context claims                                                          *)
(***************************************************************************)

\* C1: no two modules of one name in the context are both implemented; and a
\* lysp_load_module call that asks, with implement set (or with
\* LY_CTX_ALLIMPLEMENTED), for a revision other than the implemented one of
\* the name returns LY_EDENIED with *mod NULL and leaves every module of the
\* context as it was.
C1_OneImplementedRevision ==
    /\ \A i, j \in 1..Len(ctx.list) :
           (/\ i # j
            /\ ctx.list[i].name = ctx.list[j].name
            /\ ctx.list[i].implemented = 1) => ctx.list[j].implemented = 0
    /\ (/\ last.op = "lysp_load_module"
        /\ last.implement \/ "LY_CTX_ALLIMPLEMENTED" \in ctx.flags
        /\ last.revision # 0
        /\ \E k \in 1..Len(last.before) :
               /\ last.before[k].name = last.name
               /\ last.before[k].implemented = 1
               /\ last.before[k].revision # last.revision)
           => /\ last.ret = "LY_EDENIED"
              /\ last.mod = NoMod
              /\ ctx.list = last.before

\* C1 witness: with revision 1 of a module implemented and revision 2 in the
\* context too, revision 2 was asked for with implement set and denied
C1_Witness ==
    /\ last.op = "lysp_load_module"
    /\ last.implement
    /\ last.revision = 2
    /\ last.ret = "LY_EDENIED"
    /\ \E i, j \in 1..Len(ctx.list) :
           /\ ctx.list[i].name = last.name
           /\ ctx.list[i].revision = 1
           /\ ctx.list[i].implemented = 1
           /\ ctx.list[j].name = last.name
           /\ ctx.list[j].revision = 2
           /\ ctx.list[j].implemented = 0

\* the import callback or the search directories were consulted in the trace
ConsultedSource(trace) ==
    \E i \in 1..Len(trace) : trace[i].source \in {"imp_clb", "searchdirs"}

\* the modules of a list and the implemented flag of each
ImplementedFlags(list) ==
    {[name |-> list[k].name, revision |-> list[k].revision,
      implemented |-> list[k].implemented] : k \in 1..Len(list)}

\* C12: after a successful lysp_load_module with an explicit revision, the same
\* call made again (same name, revision, implement and require_parsed, same
\* context flags) succeeds with the same module, consults neither the import
\* callback nor the search directories, and leaves the modules of the context
\* and their implemented flags as they were.
C12_RepeatedLoad ==
    (last.op = "lysp_load_module" /\ last.revision # 0 /\ last.repeat_of # NoMod) =>
        /\ last.ret = "LY_SUCCESS"
        /\ last.mod = last.repeat_of
        /\ ~ConsultedSource(last.trace)
        /\ ImplementedFlags(ctx.list) = ImplementedFlags(last.before)

\* C12 witness: a@2 was loaded as implemented with its parsed tree required,
\* which brought b@2 and a source into play, and the same call was made again
C12_Witness ==
    /\ last.op = "lysp_load_module"
    /\ last.name = "a" /\ last.revision = 2
    /\ last.implement /\ last.require_parsed
    /\ last.repeat_of = [name |-> "a", revision |-> 2]
    /\ last.ret = "LY_SUCCESS"
    /\ \E k \in 1..Len(ctx.list) : ctx.list[k].name = "b"

\* the revisions of the module name the context list holds
ContextRevisions(list, name) ==
    {list[k].revision : k \in {i \in 1..Len(list) : list[i].name = name}}

\* the revisions of the module name that a source answers a request without
\* revision with
OfferedRevisions(source, name) ==
    IF ~source.set THEN {}
    ELSE {x.revision : x \in {y \in {SourceAnswer(source, name, 0)} : y.name = name}}

\* the revisions of the module name available to lysp_load_module: those of the
\* context before the call, the import callback's and the search directories'
AvailableRevisions(name) ==
    ContextRevisions(last.before, name)
        \cup OfferedRevisions(ctx.imp_clb, name)
        \cup IF "LY_CTX_DISABLE_SEARCHDIRS" \in ctx.flags THEN {}
             ELSE OfferedRevisions(ctx.searchdirs, name)

\* the sources the outermost call of the trace consulted itself
OwnConsulted(trace) ==
    SelectSeq(trace, LAMBDA ev : ev.depth = 1 /\ ev.source \in {"imp_clb", "searchdirs"})

\* the revisions of the module name that the source the outermost call
\* consulted last answered with
LastConsultedRevisions(trace, name) ==
    IF OwnConsulted(trace) = <<>> THEN {}
    ELSE OfferedRevisions(IF OwnConsulted(trace)[Len(OwnConsulted(trace))].source = "imp_clb"
                          THEN ctx.imp_clb ELSE ctx.searchdirs, name)

\* the call recorded in last was to implement the module
LastImplement == last.implement \/ "LY_CTX_ALLIMPLEMENTED" \in ctx.flags

\* C13: a successful lysp_load_module without revision returns the implemented
\* revision of the module when it is to implement the module and the context
\* has an implemented revision; otherwise it returns a module of the requested
\* name whose revision is the latest of the context after the call, and a
\* module the context did not hold before is the answer of the source the call
\* consulted last.
C13_LatestUnlessImplemented ==
    (last.op = "lysp_load_module" /\ last.revision = 0 /\ last.ret = "LY_SUCCESS") =>
        IF LastImplement /\ ly_ctx_get_module_implemented(last.before, last.name) # NoMod
        THEN last.mod = ly_ctx_get_module_implemented(last.before, last.name)
        ELSE /\ last.mod.name = last.name
             /\ \A r \in ContextRevisions(ctx.list, last.name) : r <= last.mod.revision
             /\ last.mod.revision \notin ContextRevisions(last.before, last.name)
                    => last.mod.revision \in LastConsultedRevisions(last.trace, last.name)

\* C13 as the specification states it: a successful lysp_load_module without
\* revision returns the module with the latest revision available among the
\* context, the callback and the search directories, implement set or not
C13_ReturnsLatestAvailable ==
    (last.op = "lysp_load_module" /\ last.revision = 0 /\ last.ret = "LY_SUCCESS") =>
        /\ last.mod.name = last.name
        /\ \A r \in AvailableRevisions(last.name) : r <= last.mod.revision

\* C13 witness: b@1 is implemented, b@2 is in the context too, and a call
\* without revision that is to implement b returned b@1
C13_Witness ==
    /\ last.op = "lysp_load_module"
    /\ last.name = "b" /\ last.revision = 0 /\ last.implement
    /\ last.ret = "LY_SUCCESS"
    /\ last.mod = [name |-> "b", revision |-> 1]
    /\ 2 \in ContextRevisions(last.before, "b")

\* the returns of the lysp_load_module calls of the trace, nested ones included
Returns(trace) == {i \in 1..Len(trace) : trace[i].source = "return"}

\* C16 as the specification states it: a lysp_load_module call, nested ones
\* included, that finds the requested module in the context while that module
\* is still being parsed returns LY_EVALID with *mod NULL, and a load whose
\* chain of imports comes back to a module under parsing ends in an error
C16_ParsingIsCircular ==
    last.op = "lysp_load_module" =>
        /\ \A i \in Returns(last.trace) :
               last.trace[i].parsing =>
                   last.trace[i].ret = "LY_EVALID" /\ last.trace[i].mod = NoMod
        /\ (\E i \in Returns(last.trace) : last.trace[i].parsing)
               => last.ret # "LY_SUCCESS"

\* the sources a call consulted itself, in the order of the consultations;
\* i is the place of the call in the trace
FrameSources(trace, i) ==
    LET own == {j \in i + 1..Len(trace) :
                   /\ trace[j].depth = trace[i].depth
                   /\ trace[j].source \in {"imp_clb", "searchdirs"}
                   /\ \A k \in i + 1..j - 1 :
                          ~(trace[k].source = "return" /\ trace[k].depth = trace[i].depth)}
        Nth[n \in 1..Cardinality(own)] ==
            CHOOSE j \in own : Cardinality({k \in own : k < j}) = n - 1
    IN  [n \in 1..Cardinality(own) |-> trace[Nth[n]].source]

\* the orders of consultation the flags of the context allow
SourceOrders(flags) ==
    IF "LY_CTX_PREFER_SEARCHDIRS" \in flags
    THEN {<<>>, <<"searchdirs">>, <<"imp_clb">>, <<"searchdirs", "imp_clb">>}
    ELSE {<<>>, <<"imp_clb">>, <<"searchdirs">>, <<"imp_clb", "searchdirs">>}

\* the label was passed first and left *mod NULL
FirstGaveNothing(visited, label) ==
    visited # <<>> /\ visited[1] = [label |-> label, mod |-> NoMod]

\* the sources of a call that searches outside the context
SearchOrdered ==
    loading.pc # "none" /\ loading.searched =>
        LET trace == loading.t.trace
            prefer == "LY_CTX_PREFER_SEARCHDIRS" \in ctx.flags
            sources == FrameSources(trace, 1)
            Asked(source) == \E n \in 1..Len(sources) : sources[n] = source
        IN  /\ \A i \in 1..Len(trace) :
                   trace[i].source = "call" => FrameSources(trace, i) \in SourceOrders(ctx.flags)
            /\ ~prefer /\ Asked("searchdirs") => FirstGaveNothing(loading.visited, "search_clb")
            /\ prefer /\ Asked("imp_clb") => FirstGaveNothing(loading.visited, "search_file")
            /\ loading.pc \in {"update", "return"} =>
                   /\ ~prefer /\ ctx.imp_clb.set => sources # <<>> /\ sources[1] = "imp_clb"
                   /\ prefer /\ "LY_CTX_DISABLE_SEARCHDIRS" \notin ctx.flags =>
                          sources # <<>> /\ sources[1] = "searchdirs"
            /\ "LY_CTX_DISABLE_SEARCHDIRS" \in ctx.flags =>
                   \A i \in 1..Len(trace) : trace[i].source # "searchdirs"
            /\ ~ctx.imp_clb.set => \A i \in 1..Len(trace) : trace[i].source # "imp_clb"

\* C18: a lysp_load_module call that cannot use a module of the context
\* consults the import callback and the search directories each at most once
\* and in a fixed order: without LY_CTX_PREFER_SEARCHDIRS the callback first
\* and the search directories only when the callback produced no module, with
\* the flag the search directories first and the callback only when they
\* produced no module; the search directories are never consulted with
\* LY_CTX_DISABLE_SEARCHDIRS; and the call always returns
C18_SourcesInOrder ==
    /\ []SearchOrdered
    /\ (loading.pc \in SearchLabels ~> loading.pc = "return")

\* the callback produced no module and the search directories, asked next,
\* produced the module the call returned
C18_Witness ==
    /\ loading.pc = "return"
    /\ loading.searched
    /\ "LY_CTX_PREFER_SEARCHDIRS" \notin ctx.flags
    /\ FrameSources(loading.t.trace, 1) = <<"imp_clb", "searchdirs">>
    /\ loading.ret = "LY_SUCCESS"

\* the modules of both lists whose latest_revision flag differs
FlagChanged(before, after) ==
    {ModKey(before[i]) : i \in {i \in 1..Len(before) :
        \E j \in 1..Len(after) :
            /\ ModKey(after[j]) = ModKey(before[i])
            /\ after[j].latest_revision # before[i].latest_revision}}

\* lines 1118-1126 are passed: the latest_revision flags lysp_load_module
\* assigns itself
OwnFlagUpdate ==
    loading.pc = "update" /\ loading'.pc = "return" =>
        \A key \in FlagChanged(loading.t.list, loading'.t.list) :
            /\ loading.revision = 0
            /\ ModAt(loading'.t.list, key).latest_revision = 2
            /\ loading'.t.mod = key
            /\ \/ /\ key = loading.m
                  /\ loading.t.mod = NoMod
                  /\ ModAt(loading.before, key).latest_revision = 1
               \/ /\ key = loading.t.mod
                  /\ ModAt(loading.t.list, key).latest_revision = 1

\* a flag that is lower after a call than before it is 0, and the call asked
\* a source for a module of that name
LoweredByCreation ==
    loading.pc = "return" =>
        \A key \in FlagChanged(loading.before, loading.t.list) :
            ModAt(loading.t.list, key).latest_revision
                < ModAt(loading.before, key).latest_revision =>
                    /\ ModAt(loading.t.list, key).latest_revision = 0
                    /\ \E i \in 1..Len(loading.t.trace) :
                           /\ loading.t.trace[i].source \in {"imp_clb", "searchdirs"}
                           /\ loading.t.trace[i].name = key.name

\* C19 as amended: the assignments of lysp_load_module itself change a
\* latest_revision flag only to 2 and only in a call without a revision: of
\* the module of the context that had 1 when the call looked it up, when the
\* search found nothing and it is returned, and of a newly loaded module that
\* has 1; a flag is lowered, to 0, only by the creation of a module of the
\* same name during the call
C19_OwnUpdateRaisesToTwo ==
    /\ [][OwnFlagUpdate]_vars
    /\ []LoweredByCreation

\* C19: between the start and the return of a call a latest_revision flag
\* changes only from 1 to 2 and only in a call without a revision; no call
\* lowers a flag
C19_ChangedOnlyFromOneToTwo ==
    loading.pc = "return" =>
        \A key \in FlagChanged(loading.before, loading.t.list) :
            /\ ModAt(loading.before, key).latest_revision = 1
            /\ ModAt(loading.t.list, key).latest_revision = 2

\* a call without a revision found nothing newer outside than the latest
\* module of the context, set its flag from 1 to 2 and returned it
C19_Witness ==
    /\ loading.pc = "return"
    /\ loading.revision = 0
    /\ loading.m # NoMod
    /\ loading.t.mod = loading.m
    /\ loading.ret = "LY_SUCCESS"
    /\ ModAt(loading.before, loading.m).latest_revision = 1
    /\ ModAt(loading.t.list, loading.m).latest_revision = 2
    /\ ConsultedSource(loading.t.trace)

\* a call followed label by label ends as the call taken as a whole
StepsAgreeWithCall ==
    loading.pc = "return" =>
        \E r \in {lysp_load_module([ctx EXCEPT !.list = loading.before],
                                   [list |-> loading.before, trace |-> <<>>],
                                   loading.name, loading.revision, loading.implement_arg,
                                   loading.require_parsed)} :
            /\ r.list = loading.t.list
            /\ r.trace = loading.t.trace
            /\ r.ret = loading.ret
            /\ r.mod = loading.t.mod

\* the requested name differs from the parsed one
CheckNameDiffers(p, info) == info.name # NULL /\ info.name # p.name

\* a revision is requested and the parsed (sub)module has none or another as
\* its newest
CheckRevisionDiffers(p, info) ==
    info.revision # 0 /\ (p.revision = 0 \/ info.revision # p.revision)

\* no revision is requested and the parsed (sub)module is not flagged latest
CheckNotLatest(p, info) == info.revision = 0 /\ p.latest_revision = 0

\* the file name does not match the name or the revision of the parsed
\* (sub)module
CheckFileDiffers(p, info) ==
    /\ info.path # NoMod
    /\ \/ info.path.name # p.name
       \/ info.path.revision # 0 /\ info.path.revision # p.revision

\* C20: lysp_load_module_check decides in this order: another name than the
\* requested one gives LY_EINVAL; a requested revision that is not the newest
\* of the parsed (sub)module, or a (sub)module without revisions, gives
\* LY_EINVAL; no requested revision and a (sub)module not flagged latest gives
\* LY_EEXIST; a submodule of another module gives LY_EVALID; a file name that
\* does not match only logs a warning and never changes the result
C20_CheckOrder ==
    check_call.op = "lysp_load_module_check" =>
        LET p == check_call.p
            info == check_call.info
            ret == check_call.ret
        IN  /\ CheckNameDiffers(p, info) => ret = "LY_EINVAL"
            /\ ~CheckNameDiffers(p, info) /\ CheckRevisionDiffers(p, info) =>
                   ret = "LY_EINVAL"
            /\ /\ ~CheckNameDiffers(p, info) /\ ~CheckRevisionDiffers(p, info)
               /\ CheckNotLatest(p, info)
               => ret = "LY_EEXIST"
            /\ /\ ~CheckNameDiffers(p, info) /\ ~CheckRevisionDiffers(p, info)
               /\ ~CheckNotLatest(p, info)
               /\ p.submod /\ info.submoduleof # p.belongs_to
               => ret = "LY_EVALID"
            /\ check_call.warned => ret = "LY_SUCCESS" /\ CheckFileDiffers(p, info)
            /\ ret = "LY_SUCCESS" /\ CheckFileDiffers(p, info) => check_call.warned
            /\ \A path \in CheckPaths :
                   lysp_load_module_check(p, [info EXCEPT !.path = path]).ret = ret

\* a submodule of the including module, with the requested name, no requested
\* revision and not flagged latest, read from a file of another name: the
\* flag decides, LY_EEXIST without a warning
C20_Witness ==
    /\ check_call.op = "lysp_load_module_check"
    /\ check_call.p.submod
    /\ check_call.info.name = check_call.p.name
    /\ check_call.info.revision = 0
    /\ check_call.p.latest_revision = 0
    /\ check_call.info.submoduleof # check_call.p.belongs_to
    /\ CheckFileDiffers(check_call.p, check_call.info)
    /\ check_call.ret = "LY_EEXIST"
    /\ ~check_call.warned

\* a submodule that is being parsed never passes the check: when the checks
\* before let it through the result is LY_EVALID
CircularIncludeIsInvalid ==
    check_call.op = "lysp_load_module_check" /\ check_call.p.submod
        /\ check_call.p.parsing =>
            check_call.ret \in {"LY_EINVAL", "LY_EEXIST", "LY_EVALID"}

(***************************************************************************)
(* node-id claims                                                          *)
(***************************************************************************)

\* the module a prefix text stands for in module mod: mod itself for the empty
\* text and for its own prefix, else the module of the first import with
\* exactly this prefix, else NULL
PrefixOwner(mod, text) ==
    LET m == NodeidModules[mod]
        same == {u \in 1..Len(m.imports) : m.imports[u].prefix = text}
    IN  IF text = <<>> \/ text = m.prefix THEN mod
        ELSE IF same # {}
        THEN m.imports[CHOOSE u \in same : \A v \in same : u <= v].module
        ELSE NULL

\* the pieces of s between its '/' characters
RECURSIVE Split(_)
Split(s) ==
    LET k == strchr(s, "/")
    IN  IF k < 0 THEN <<s>>
        ELSE <<SubSeq(s, 1, k)>> \o Split(SubSeq(s, k + 2, Len(s)))

\* identifier of YANG: a start character and then identifier characters
IsIdentifier(s) ==
    /\ s # <<>>
    /\ is_yangidentstartchar(s[1])
    /\ \A k \in 2..Len(s) : is_yangidentchar(s[k])

\* node-id of the grammar: [prefix ":"] identifier
IsNodeId(s) ==
    LET k == strchr(s, ":")
    IN  IF k < 0 THEN IsIdentifier(s)
        ELSE IsIdentifier(SubSeq(s, 1, k)) /\ IsIdentifier(SubSeq(s, k + 2, Len(s)))

\* schema node-id of the grammar: ("/" node-id)+ when absolute,
\* node-id ("/" node-id)* when descendant
MatchesGrammar(s, absolute) ==
    LET ps == Split(s)
    IN  IF absolute
        THEN Len(ps) >= 2 /\ ps[1] = <<>> /\ \A j \in 2..Len(ps) : IsNodeId(ps[j])
        ELSE \A j \in 1..Len(ps) : IsNodeId(ps[j])

\* the module of the node-id piece p for the context module A, NULL for a
\* prefix that is not defined
PieceModule(p) ==
    LET k == strchr(p, ":")
    IN  IF k < 0 THEN "A" ELSE PrefixOwner("A", SubSeq(p, 1, k))

\* the name of the node-id piece p
PieceName(p) ==
    LET k == strchr(p, ":")
    IN  IF k < 0 THEN p ELSE SubSeq(p, k + 2, Len(p))

\* the schema node the node-id piece p names below node (0: top level), 0 when
\* there is none
PieceChild(node, p) ==
    LET named == {k \in 1..Len(SchemaNodes) :
                      /\ SchemaNodes[k].parent = node
                      /\ SchemaNodes[k].name = PieceName(p)
                      /\ SchemaNodes[k].module = PieceModule(p)}
    IN  IF named = {} THEN 0 ELSE CHOOSE k \in named : TRUE

\* the schema node the pieces ps[j..n] lead to from node, 0 when a piece
\* names no node
RECURSIVE PiecesTarget(_, _, _, _)
PiecesTarget(ps, j, n, node) ==
    IF j > n THEN node
    ELSE IF PieceChild(node, ps[j]) = 0 THEN 0
    ELSE PiecesTarget(ps, j + 1, n, PieceChild(node, ps[j]))

\* the node-id of the call: the first nodeid_len characters when nodeid_len is set
CallNodeid ==
    IF nodeid_call.nodeid_len = 0 THEN nodeid_call.nodeid
    ELSE SubSeq(nodeid_call.nodeid, 1, nodeid_call.nodeid_len)

\* the node-id pieces of the call, without the empty piece before the leading
\* '/' of an absolute node-id
CallPieces ==
    IF nodeid_call.context_node = 0 THEN Tail(Split(CallNodeid)) ELSE Split(CallNodeid)

\* the node the call's node-id names, 0 when the node-id does not match the
\* grammar or a piece names no node
CallTarget ==
    IF MatchesGrammar(CallNodeid, nodeid_call.context_node = 0)
    THEN PiecesTarget(CallPieces, 1, Len(CallPieces), nodeid_call.context_node)
    ELSE 0

\* C4: lys_module_find_prefix gives the module itself for an empty prefix and
\* for its own prefix, else the module of the first import whose prefix is
\* exactly the given one, else NULL; and lysc_resolve_schema_nodeid whose walk
\* comes to a segment with a prefix that is not defined returns LY_ENOTFOUND
\* with a LYVE_REFERENCE message and a NULL target.
C4_PrefixResolution ==
    /\ nodeid_call.op = "lys_module_find_prefix" =>
          nodeid_call.res = PrefixOwner(nodeid_call.mod,
                                        SubSeq(nodeid_call.prefix, 1, nodeid_call.len))
    /\ nodeid_call.op = "lysc_resolve_schema_nodeid" =>
          \A j \in 1..Len(Split(nodeid_call.nodeid)) :
              LET ps == Split(nodeid_call.nodeid)
                  first == IF nodeid_call.context_node = 0 THEN 2 ELSE 1
              IN  (/\ nodeid_call.nodeid_len = 0
                   /\ j >= first
                   /\ nodeid_call.context_node = 0 => ps[1] = <<>>
                   /\ \A i \in first..j : IsNodeId(ps[i])
                   /\ PiecesTarget(ps, first, j - 1, nodeid_call.context_node) # 0
                         \/ (j = first /\ nodeid_call.context_node = 0)
                   /\ PieceModule(ps[j]) = NULL)
                  => /\ nodeid_call.res.ret = "LY_ENOTFOUND"
                     /\ nodeid_call.res.vecode = "LYVE_REFERENCE"
                     /\ nodeid_call.res.target = 0

\* C4 witness: the walk of /c/z:l came to the prefix z, which module A does not
\* define, and failed
C4_Witness ==
    /\ nodeid_call.op = "lysc_resolve_schema_nodeid"
    /\ nodeid_call.nodeid = <<"/", "c", "/", "z", ":", "l">>
    /\ nodeid_call.nodeid_len = 0
    /\ nodeid_call.context_node = 0
    /\ nodeid_call.res.ret = "LY_ENOTFOUND"
    /\ nodeid_call.res.segments = 2

\* C5: a node-id is taken as descendant exactly when a context node is given:
\* with a context node a leading '/', and without one a missing leading '/',
\* gives LY_EVALID before ly_parse_nodeid is called once, with a NULL target
\* and no result flag; any other non-empty rest is walked.
C5_NodeidKindByContext ==
    nodeid_call.op = "lysc_resolve_schema_nodeid" =>
        LET descendant == nodeid_call.context_node # 0
            slash == At(nodeid_call.nodeid, 0) = "/"
        IN  /\ (descendant <=> slash) =>
                  /\ nodeid_call.res.ret = "LY_EVALID"
                  /\ nodeid_call.res.vecode = "LYVE_REFERENCE"
                  /\ nodeid_call.res.target = 0
                  /\ nodeid_call.res.result_flag = {}
                  /\ nodeid_call.res.segments = 0
            /\ (descendant /\ ~slash /\ nodeid_call.nodeid # <<>>) =>
                  nodeid_call.res.segments >= 1
            /\ (~descendant /\ slash /\ Len(nodeid_call.nodeid) >= 2) =>
                  nodeid_call.res.segments >= 1

\* C5 witness: /l was given with the container c as the context node and
\* rejected
C5_Witness ==
    /\ nodeid_call.op = "lysc_resolve_schema_nodeid"
    /\ nodeid_call.nodeid = <<"/", "l">>
    /\ nodeid_call.context_node = 1
    /\ nodeid_call.res.ret = "LY_EVALID"
    /\ nodeid_call.res.segments = 0

\* C6: lysc_resolve_schema_nodeid gives a target only for a node-id that
\* matches the grammar of absolute (without context node) or descendant (with
\* context node) schema node-ids.
C6_TargetOnlyForGrammar ==
    (/\ nodeid_call.op = "lysc_resolve_schema_nodeid"
     /\ nodeid_call.nodeid_len = 0
     /\ nodeid_call.res.target # 0)
        => MatchesGrammar(nodeid_call.nodeid, nodeid_call.context_node = 0)

\* C7: when the node-id names a node, the call returns LY_EDENIED if the filter
\* is not 0 and the type of that node is not in it, and LY_SUCCESS otherwise,
\* whatever the types of the nodes on the way are.
C7_FilterOnFinalNode ==
    (nodeid_call.op = "lysc_resolve_schema_nodeid" /\ CallTarget # 0) =>
        /\ nodeid_call.res.target = CallTarget
        /\ nodeid_call.res.ret =
              (IF /\ nodeid_call.nodetype # {}
                  /\ SchemaNodes[CallTarget].nodetype \notin nodeid_call.nodetype
               THEN "LY_EDENIED" ELSE "LY_SUCCESS")

\* C7 witness: /c/l with a filter that has the container but not the leaf was
\* denied
C7_Witness ==
    /\ nodeid_call.op = "lysc_resolve_schema_nodeid"
    /\ nodeid_call.nodeid = <<"/", "c", "/", "l">>
    /\ nodeid_call.nodeid_len = 0
    /\ "LYS_CONTAINER" \in nodeid_call.nodetype
    /\ "LYS_LEAF" \notin nodeid_call.nodetype
    /\ nodeid_call.res.ret = "LY_EDENIED"
    /\ nodeid_call.res.target = 2

\* the pieces of the whole node-id text of the call, which the walk reads
\* segment by segment whatever nodeid_len is
WalkPieces ==
    IF nodeid_call.context_node = 0 THEN Tail(Split(nodeid_call.nodeid))
    ELSE Split(nodeid_call.nodeid)

\* the offset in the node-id text at which piece j of the pieces ps ends
RECURSIVE PieceEnd(_, _)
PieceEnd(ps, j) ==
    IF j = 0 THEN (IF nodeid_call.context_node = 0 THEN 0 ELSE -1)
    ELSE PieceEnd(ps, j - 1) + 1 + Len(ps[j])

\* the walk stops after piece j: the text or the first nodeid_len characters
\* of it end there
LastPiece(ps, j) ==
    \/ j = Len(ps)
    \/ nodeid_call.nodeid_len # 0 /\ PieceEnd(ps, j) >= nodeid_call.nodeid_len

\* the node the walk stands on before piece j of ps, when that piece is
\* reached: the node-id is of the kind the context asks for, and the pieces up
\* to j are node-ids of the grammar with defined prefixes, those before j do
\* not end the walk and lead to a node; 0 otherwise
WalkNode(ps, j) ==
    IF /\ (nodeid_call.context_node = 0) <=> (At(nodeid_call.nodeid, 0) = "/")
       /\ \A i \in 1..j : IsNodeId(ps[i]) /\ PieceModule(ps[i]) # NULL
       /\ \A i \in 1..(j - 1) : ~LastPiece(ps, i)
    THEN PiecesTarget(ps, 1, j - 1, nodeid_call.context_node)
    ELSE 0

\* the input or output statement (inout) of the rpc or action node
InoutOf(node, inout) ==
    CHOOSE k \in 1..Len(SchemaNodes) :
        SchemaNodes[k].parent = node /\ SchemaNodes[k].nodetype = inout

\* the nodes kept below an output statement
OutputChildren ==
    {k \in 1..Len(SchemaNodes) :
        /\ SchemaNodes[k].parent # 0
        /\ SchemaNodes[SchemaNodes[k].parent].nodetype = "LYS_OUTPUT"}

\* C17: when the walk stands on an rpc or action node, the next segment must
\* belong to the module of that node and be exactly "input" or "output", and
\* the walk moves to that statement; a segment of another module or with
\* another name makes the call return LY_ENOTFOUND without a target.  The
\* lys_find_child call made directly after "output" is the only one that gets
\* LYS_GETNEXT_OUTPUT, and the only one that searches the output's children.
C17_InputOutputByHand ==
    nodeid_call.op = "lysc_resolve_schema_nodeid" =>
        /\ \A ps \in {WalkPieces} : \A j \in 1..Len(ps) :
               \A operation \in {WalkNode(ps, j)} \ {0} :
                   SchemaNodes[operation].nodetype \in {"LYS_RPC", "LYS_ACTION"} =>
                       LET name == PieceName(ps[j])
                           valid == /\ PieceModule(ps[j]) = SchemaNodes[operation].module
                                    /\ name \in {<<"i", "n", "p", "u", "t">>,
                                                 <<"o", "u", "t", "p", "u", "t">>}
                       IN  /\ ~valid =>
                               /\ nodeid_call.res.ret = "LY_ENOTFOUND"
                               /\ nodeid_call.res.target = 0
                               /\ nodeid_call.res.segments = j
                           /\ (valid /\ LastPiece(ps, j)) =>
                               /\ nodeid_call.res.ret \in {"LY_SUCCESS", "LY_EDENIED"}
                               /\ nodeid_call.res.target =
                                      InoutOf(operation,
                                              IF name = <<"i", "n", "p", "u", "t">>
                                              THEN "LYS_INPUT" ELSE "LYS_OUTPUT")
        /\ \A k \in 1..Len(nodeid_call.res.lookups) :
               LET lookup == nodeid_call.res.lookups[k]
                   after_output == /\ lookup.parent # 0
                                   /\ SchemaNodes[lookup.parent].nodetype = "LYS_OUTPUT"
               IN  /\ lookup.output <=> after_output
                   /\ after_output <=>
                          (\E i \in 1..Len(lookup.searched) :
                               lookup.searched[i] \in OutputChildren)

\* C17 witness: /r/output/l was resolved: the second segment moved the walk
\* from the rpc r to its output, and the lys_find_child call for the third
\* segment, with LYS_GETNEXT_OUTPUT, found the leaf l of the output
C17_Witness ==
    /\ nodeid_call.op = "lysc_resolve_schema_nodeid"
    /\ nodeid_call.nodeid = <<"/", "r", "/", "o", "u", "t", "p", "u", "t", "/", "l">>
    /\ nodeid_call.nodeid_len = 0
    /\ nodeid_call.res.ret \in {"LY_SUCCESS", "LY_EDENIED"}
    /\ nodeid_call.res.target = 8
    /\ Len(nodeid_call.res.lookups) = 2
    /\ ~nodeid_call.res.lookups[1].output
    /\ nodeid_call.res.lookups[2].output

\* the segment the walk reads at the start of the piece p: its longest
\* beginning that is a node-id
SegmentOf(p) ==
    LET ends == {k \in 1..Len(p) : IsNodeId(SubSeq(p, 1, k))}
    IN  IF ends = {} THEN <<>>
        ELSE SubSeq(p, 1, CHOOSE k \in ends : \A j \in ends : j <= k)

\* C25: lysc_resolve_schema_nodeid leaves *target non-NULL exactly when it
\* returns LY_SUCCESS or LY_EDENIED, and *target is then the node of the last
\* segment; with every other return value *target is NULL
C25_TargetOnlyOnSuccessOrDenied ==
    nodeid_call.op = "lysc_resolve_schema_nodeid" =>
        /\ nodeid_call.res.target # 0
               <=> nodeid_call.res.ret \in {"LY_SUCCESS", "LY_EDENIED"}
        /\ nodeid_call.res.ret \in {"LY_SUCCESS", "LY_EDENIED"} =>
               \A ps \in {WalkPieces} :
                   /\ nodeid_call.res.segments \in 1..Len(ps)
                   /\ \A n \in {nodeid_call.res.segments} :
                          nodeid_call.res.target =
                              PiecesTarget([ps EXCEPT ![n] = SegmentOf(ps[n])],
                                           1, n, nodeid_call.context_node)

\* C25 witness: c/l was resolved below the context node with a filter that
\* has no leaf: LY_EDENIED, and *target is the leaf of the second segment
C25_Witness ==
    /\ nodeid_call.op = "lysc_resolve_schema_nodeid"
    /\ nodeid_call.res.ret = "LY_EDENIED"
    /\ nodeid_call.res.segments = 2
    /\ nodeid_call.res.target # 0
    /\ SchemaNodes[nodeid_call.res.target].nodetype = "LYS_LEAF"

(***************************************************************************)
(* typedef claims                                                          *)
(***************************************************************************)

\* the name of the looked-up id, after its prefix
LookupName ==
    LET str == strchr(tpdf_mod.id, ":")
    IN  IF str >= 0 THEN SubSeq(tpdf_mod.id, str + 2, Len(tpdf_mod.id)) ELSE tpdf_mod.id

\* the prefix of the looked-up id with its colon, <<>> for an unprefixed id
LookupPrefix ==
    LET str == strchr(tpdf_mod.id, ":")
    IN  IF str >= 0 THEN SubSeq(tpdf_mod.id, 1, str + 1) ELSE <<>>

\* the typedef array holds a typedef of the name
Holds(scope, name) == \E u \in 1..Len(tpdf_mod.typedefs[scope]) : tpdf_mod.typedefs[scope][u] = name

\* the start node and its ancestors, nearest first
RECURSIVE Enclosing(_)
Enclosing(node) == IF node = 0 THEN <<>> ELSE <<node>> \o Enclosing(PNodeParent[node])

\* the rank of a typedef array of module m in the search that starts at
\* start_node (local says whether enclosing nodes are in scope): enclosing nodes
\* by distance, then the module's top level, then its submodules in include
\* order; 0 for an array that is not in scope
ScopeRank(scope, m, local) ==
    LET chain == IF local THEN Enclosing(tpdf_mod.start_node) ELSE <<>>
    IN  IF scope.mod # m THEN 0
        ELSE IF scope.kind = "node"
        THEN IF \E k \in 1..Len(chain) : chain[k] = scope.at
             THEN CHOOSE k \in 1..Len(chain) : chain[k] = scope.at
             ELSE 0
        ELSE IF scope.kind = "top" THEN Len(chain) + 1
        ELSE Len(chain) + 1 + scope.at

\* the result is the first typedef named name of the best-ranked array in
\* scope that holds one, and LY_ENOTFOUND when no array in scope holds one
FindsNearest(name, m, local) ==
    LET cand == {s \in TpdfScopes : ScopeRank(s, m, local) > 0 /\ Holds(s, name)}
        res == tpdf_mod.res
    IN  IF cand = {}
        THEN res.ret = "LY_ENOTFOUND"
        ELSE /\ res.ret = "LY_SUCCESS"
             /\ res.tpdf.idx > 0
             /\ res.tpdf.scope \in cand
             /\ \A s \in cand : ScopeRank(res.tpdf.scope, m, local) <= ScopeRank(s, m, local)
             /\ tpdf_mod.typedefs[res.tpdf.scope][res.tpdf.idx] = name
             /\ \A v \in 1..(res.tpdf.idx - 1) : tpdf_mod.typedefs[res.tpdf.scope][v] # name
             /\ res.node = (IF res.tpdf.scope.kind = "node" THEN res.tpdf.scope.at ELSE 0)

\* C2: for a name that is not built-in, unprefixed or with the module's own
\* prefix, lysp_type_find returns the typedef of the nearest enclosing node,
\* else a top-level typedef of the module, else one of a submodule in include
\* order, and never one of the imported module; a name with the import's prefix
\* is searched only in the imported module's top-level and submodule typedefs.
C2_TypedefScopeOrder ==
    tpdf_mod.op = "lysp_type_find" =>
        /\ (LookupPrefix \in {<<>>, <<"p", ":">>} /\ LookupName \notin BuiltinNames) =>
              /\ FindsNearest(LookupName, "main", TRUE)
              /\ \A k \in 1..Len(tpdf_mod.res.searched) : tpdf_mod.res.searched[k].mod = "main"
        /\ (LookupPrefix = <<"q", ":">> /\ tpdf_mod.imp_parsed) =>
              /\ FindsNearest(LookupName, "imp", FALSE)
              /\ \A k \in 1..Len(tpdf_mod.res.searched) :
                     /\ tpdf_mod.res.searched[k].mod = "imp"
                     /\ tpdf_mod.res.searched[k].kind \in {"top", "sub"}

\* C2 witness: t, looked up from the leaf 3, is defined in the container 1 and
\* at the top level of the module, and the typedef of the container was returned
C2_Witness ==
    /\ tpdf_mod.op = "lysp_type_find"
    /\ tpdf_mod.id = <<"t">>
    /\ tpdf_mod.start_node = 3
    /\ Holds(NodeScope(1), <<"t">>)
    /\ Holds(TopScope("main"), <<"t">>)
    /\ tpdf_mod.res.ret = "LY_SUCCESS"
    /\ tpdf_mod.res.tpdf.scope = NodeScope(1)

\* C3: an unprefixed built-in type name gives LY_SUCCESS with the type's tag and
\* a NULL typedef without a look into any typedef array, whatever typedefs are
\* in scope; any other unprefixed name gives the tag LY_TYPE_UNKNOWN and the
\* typedef arrays are searched.
C3_BuiltinWithoutLookup ==
    (tpdf_mod.op = "lysp_type_find" /\ strchr(tpdf_mod.id, ":") < 0) =>
        IF tpdf_mod.id \in BuiltinNames
        THEN /\ tpdf_mod.res.ret = "LY_SUCCESS"
             /\ tpdf_mod.res.type \in BuiltinTypes
             /\ lys_datatype2str(tpdf_mod.res.type) = tpdf_mod.id
             /\ tpdf_mod.res.tpdf = NullTpdf
             /\ tpdf_mod.res.searched = <<>>
        ELSE /\ tpdf_mod.res.type = LY_TYPE_UNKNOWN
             /\ tpdf_mod.res.searched # <<>>
             /\ tpdf_mod.res.ret = (IF \E s \in TpdfScopes : ScopeRank(s, "main", TRUE) > 0
                                                              /\ Holds(s, tpdf_mod.id)
                                    THEN "LY_SUCCESS" ELSE "LY_ENOTFOUND")

\* C3 witness: with a typedef named string in every typedef array, the name
\* string was resolved to the built-in type
C3_Witness ==
    /\ tpdf_mod.op = "lysp_type_find"
    /\ tpdf_mod.id = <<"s", "t", "r", "i", "n", "g">>
    /\ \A s \in TpdfScopes : Holds(s, tpdf_mod.id)
    /\ tpdf_mod.res.type = "LY_TYPE_STRING"
    /\ tpdf_mod.res.tpdf = NullTpdf

\* a typedef of the main module: its array and its position in it
MainTypedefs ==
    {[scope |-> s, idx |-> u] : s \in {x \in TpdfScopes : x.mod = "main"}, u \in 1..MaxTpdfs + 1}
        \cap {o \in [scope : TpdfScopes, idx : 1..MaxTpdfs + 1] :
                  o.idx <= Len(tpdf_mod.typedefs[o.scope])}

TypedefName(o) == tpdf_mod.typedefs[o.scope][o.idx]

\* node a is the parent of node n, or the parent of its parent, ...
IsAncestor(a, n) == \E k \in 2..Len(Enclosing(n)) : Enclosing(n)[k] = a

\* two typedefs of one name that YANG does not allow together
TypedefClash(x, y) ==
    /\ x # y
    /\ TypedefName(x) = TypedefName(y)
    /\ \/ x.scope.kind \in {"top", "sub"} /\ y.scope.kind \in {"top", "sub"}
       \/ x.scope.kind = "node" /\ y.scope = x.scope
       \/ x.scope.kind = "node" /\ y.scope.kind = "node" /\ IsAncestor(y.scope.at, x.scope.at)
       \/ x.scope.kind = "node" /\ y.scope.kind \in {"top", "sub"}

\* C10: lysp_check_typedefs fails when two typedefs of the module share a name
\* and are both top-level (module or submodules), siblings of one node, in a
\* node and in an ancestor of it, or in a node and at the top level, and when a
\* typedef has the name of a built-in type.
C10_TypedefCollisions ==
    tpdf_mod.op = "lysp_check_typedefs" =>
        ((\/ \E x, y \in MainTypedefs : TypedefClash(x, y)
          \/ \E x \in MainTypedefs : TypedefName(x) \in BuiltinNames)
             => tpdf_mod.res.ret # "LY_SUCCESS")

\* C10 witness: a typedef of the list 2 has the name of a typedef of its parent
\* container 1, nothing else collides, and the check failed
C10_Witness ==
    /\ tpdf_mod.op = "lysp_check_typedefs"
    /\ tpdf_mod.typedefs[NodeScope(2)] = <<<<"t">>>>
    /\ tpdf_mod.typedefs[NodeScope(1)] = <<<<"t">>>>
    /\ tpdf_mod.res.ret # "LY_SUCCESS"

\* C11: whenever one of the lysp_check_typedef checks of lysp_check_typedefs
\* reports a collision (LY_EEXIST), lysp_check_typedefs returns LY_EVALID, and
\* it returns LY_SUCCESS when no check reports one.
C11_CollisionIsInvalid ==
    tpdf_mod.op = "lysp_check_typedefs" =>
        /\ tpdf_mod.res.check = "LY_EEXIST" => tpdf_mod.res.ret = "LY_EVALID"
        /\ tpdf_mod.res.check = "LY_SUCCESS" => tpdf_mod.res.ret = "LY_SUCCESS"
        /\ tpdf_mod.res.check \in {"LY_EEXIST", "LY_SUCCESS"}

\* C11 as the specification states it: a collision reported by a check makes
\* lysp_check_typedefs return LY_EEXIST
C11_CollisionIsExists ==
    (tpdf_mod.op = "lysp_check_typedefs" /\ tpdf_mod.res.check = "LY_EEXIST")
        => tpdf_mod.res.ret = "LY_EEXIST"

\* C11 witness: two top-level typedefs of the main module are both named t and
\* the second lysp_check_typedef check reported the collision
C11_Witness ==
    /\ tpdf_mod.op = "lysp_check_typedefs"
    /\ tpdf_mod.typedefs[TopScope("main")] = <<<<"t">>, <<"t">>>>
    /\ tpdf_mod.res.check = "LY_EEXIST"

\* C27: every return of lysp_load_module other than LY_SUCCESS leaves *mod
\* NULL; with LY_SUCCESS *mod is a module of the context and, when implement
\* was asked for or LY_CTX_ALLIMPLEMENTED is set, its implemented flag is 1.
\* The returns of the calls made for the imports are those of the trace.
C27_ModOnlyOnSuccess ==
    last.op = "lysp_load_module" =>
        /\ last.ret # "LY_SUCCESS" => last.mod = NoMod
        /\ last.ret = "LY_SUCCESS" =>
               /\ last.mod # NoMod
               /\ \E k \in 1..Len(ctx.list) : ModKey(ctx.list[k]) = last.mod
               /\ (last.implement \/ "LY_CTX_ALLIMPLEMENTED" \in ctx.flags) =>
                      ModAt(ctx.list, last.mod).implemented = 1
        /\ \A k \in 1..Len(last.trace) :
               last.trace[k].source = "return" =>
                   (last.trace[k].ret = "LY_SUCCESS" <=> last.trace[k].mod # NoMod)

\* C27 witness: a module that was in the context and not implemented was asked
\* for with implement, and the call returned it with the flag set
C27_Witness ==
    /\ last.op = "lysp_load_module"
    /\ last.implement
    /\ last.ret = "LY_SUCCESS"
    /\ \E k \in 1..Len(last.before) :
           /\ ModKey(last.before[k]) = last.mod
           /\ last.before[k].implemented = 0
    /\ ModAt(ctx.list, last.mod).implemented = 1

(***************************************************************************)
(* NACM claims                                                             *)
(***************************************************************************)

\* the data nodes below a node of the compiled tree
RECURSIVE DataDescendants(_)
DataDescendants(node) ==
    LET kids == {CNodeChildren[node][i] : i \in 1..Len(CNodeChildren[node])}
    IN  kids \cup UNION {DataDescendants(k) : k \in kids}

\* nacm_compile was called last for an instance attached to a schema node
NacmCalledOnNode ==
    /\ compiled.op # "none"
    /\ compiled.call.ret # "none"
    /\ compiled.call.c_ext.parent_type = "LYEXT_PAR_NODE"

\* the node held an instance of the NACM plugin in the extension instances exts
CarriesNacm(exts, node) ==
    \E v \in 1..Len(exts[node]) : exts[node][v].def.plugin = "nacm_plugin"

C15_PlaceOfInstance ==
    (compiled.op # "none" /\ compiled.call.ret # "none") =>
        LET c_ext == compiled.call.c_ext
            operation == /\ c_ext.parent_type = "LYEXT_PAR_NODE"
                         /\ CNodeType[c_ext.parent] \in {"LYS_RPC", "LYS_ACTION", "LYS_NOTIF"}
        IN  /\ (operation /\ c_ext.def.name = "default-deny-write") =>
                   /\ compiled.call.ret = "LY_EVALID"
                   /\ \A d \in DataDescendants(c_ext.parent) :
                          compiled.exts[d] = compiled.call.before[d]
            /\ (operation /\ c_ext.def.name = "default-deny-all") =>
                   (compiled.call.ret = "LY_SUCCESS"
                        <=> ~NacmDuplicated(compiled.call.before[c_ext.parent],
                                            compiled.call.u))
            /\ c_ext.parent_type # "LYEXT_PAR_NODE" =>
                   /\ compiled.call.ret = "LY_EVALID"
                   /\ compiled.exts = compiled.call.before

\* C15 witness: default-deny-write was compiled on the notification n, whose
\* leaf l3 had no extension instance, and the call failed
C15_Witness ==
    /\ NacmCalledOnNode
    /\ compiled.call.c_ext.parent = 5
    /\ compiled.call.c_ext.def.name = "default-deny-write"
    /\ compiled.call.before[6] = <<>>
    /\ compiled.call.ret = "LY_EVALID"
    /\ compiled.exts[6] = <<>>

\* C21: nacm_compile returns LY_EVALID whenever the host node already holds
\* another extension instance handled by the NACM plugin, the same extension
\* or the other one of default-deny-all and default-deny-write, and then no
\* descendant gets an inherited instance
C21_DuplicateIsInvalid ==
    (NacmCalledOnNode
        /\ \E v \in 1..Len(compiled.call.before[compiled.call.c_ext.parent]) :
               /\ v # compiled.call.u
               /\ compiled.call.before[compiled.call.c_ext.parent][v].def.plugin
                      = "nacm_plugin") =>
        /\ compiled.call.ret = "LY_EVALID"
        /\ \A d \in DataDescendants(compiled.call.c_ext.parent) :
               compiled.exts[d] = compiled.call.before[d]

\* C21 witness: default-deny-write was compiled on the container c that held
\* default-deny-all, on a place where it is allowed, and the call failed
C21_Witness ==
    /\ NacmCalledOnNode
    /\ compiled.call.c_ext.parent = 1
    /\ compiled.call.u = 2
    /\ compiled.call.c_ext.def.name = "default-deny-write"
    /\ compiled.call.before[1][1].def.name = "default-deny-all"
    /\ compiled.call.ret = "LY_EVALID"
    /\ compiled.exts[2] = compiled.call.before[2]

\* the number of extension instances of the NACM plugin the node holds in exts
NacmCount(exts, node) ==
    Cardinality({v \in 1..Len(exts[node]) : exts[node][v].def.plugin = "nacm_plugin"})

\* the host node of an instance and the data nodes below it
HostSubtree(node) == {node} \cup DataDescendants(node)

\* C26: when no node of the host's subtree carries more than one extension
\* instance of the NACM plugin before a nacm_compile call, then after a
\* successful call no node of that subtree carries more than one, whichever
\* of default-deny-write and default-deny-all the descendants hold
C26_AtMostOneNacmInstance ==
    (/\ NacmCalledOnNode
     /\ compiled.call.ret = "LY_SUCCESS"
     /\ \A d \in HostSubtree(compiled.call.c_ext.parent) :
            NacmCount(compiled.call.before, d) <= 1) =>
        \A d \in HostSubtree(compiled.call.c_ext.parent) :
            NacmCount(compiled.exts, d) <= 1

(***************************************************************************)
(* identifier claims                                                       *)
(***************************************************************************)

\* the calls that took a ':'
AcceptedColons(steps) ==
    {i \in 1..Len(steps) : steps[i].c = ":" /\ steps[i].ret = "LY_SUCCESS"}

\* C22: the characters of a string are fed one by one to
\* lysp_check_identifierchar, first = 1 for the first only.  With a tracker at
\* most one ':' is accepted: the tracker goes from 0 to 1 on the first ':' and
\* from 1 to 2 on the next character, which must be an identifier start
\* character; a second ':' and a ':' as the first character are rejected
\* with LY_EVALID; without a tracker every ':' is rejected
C22_OneColon ==
    ident_feed.op = "feed" =>
        LET steps == ident_feed.steps
        IN  /\ Cardinality(AcceptedColons(steps)) <= 1
            /\ \A i \in 1..Len(steps) :
                   /\ i \in AcceptedColons(steps) =>
                          /\ ident_feed.has_prefix
                          /\ ~steps[i].first
                          /\ steps[i].before = 0 /\ steps[i].after = 1
                   /\ (i - 1 \in AcceptedColons(steps)) =>
                          IF is_yangidentstartchar(steps[i].c)
                          THEN /\ steps[i].ret = "LY_SUCCESS"
                               /\ steps[i].before = 1 /\ steps[i].after = 2
                          ELSE /\ steps[i].ret = "LY_EVALID"
                               /\ steps[i].after = steps[i].before
                   /\ steps[i].after # steps[i].before =>
                          \/ steps[i].first /\ steps[i].after = 0
                          \/ steps[i].before = 0 /\ steps[i].after = 1 /\ steps[i].c = ":"
                          \/ steps[i].before = 1 /\ steps[i].after = 2
                   /\ (steps[i].c = ":" /\ \E j \in 1..i - 1 : steps[j].c = ":") =>
                          steps[i].ret = "LY_EVALID"
                   /\ steps[i].c = ":" /\ steps[i].first => steps[i].ret = "LY_EVALID"
                   /\ steps[i].c = ":" /\ ~ident_feed.has_prefix =>
                          steps[i].ret = "LY_EVALID"

\* C22 witness: "a:a:" was fed with a tracker; the first ':' was taken, the
\* tracker went to 1 and with the next character to 2, and the second ':'
\* was rejected
C22_Witness ==
    /\ ident_feed.op = "feed"
    /\ ident_feed.has_prefix
    /\ ident_feed.text = <<"a", ":", "a", ":">>
    /\ ident_feed.pos = 4
    /\ ident_feed.steps[2].after = 1
    /\ ident_feed.steps[3].after = 2
    /\ ident_feed.ret = "LY_EVALID"

(***************************************************************************)
(* revision claims                                                         *)
(***************************************************************************)

\* the entries of an array as a bag
EntryBag(revs) ==
    [e \in {revs[k] : k \in 1..Len(revs)} |-> Cardinality({k \in 1..Len(revs) : revs[k] = e})]

\* the first position of the array that holds the maximal date
FirstNewest(revs) ==
    CHOOSE r \in 1..Len(revs) :
        /\ \A k \in 1..Len(revs) : revs[k].date <= revs[r].date
        /\ \A k \in 1..r - 1 : revs[k].date < revs[r].date

\* C23: after lysp_sort_revisions on a non-empty array the entry at position
\* 0 has a date greater than or equal to every other; the call exchanges at
\* most the entry at position 0 with the first entry of the maximal date,
\* leaves the other positions alone, keeps the multiset of the entries, and
\* changes nothing when position 0 holds a maximal date or the array is NULL
C23_NewestFirst ==
    sort_call.op = "lysp_sort_revisions" =>
        LET before == sort_call.before
            after == sort_call.revs
        IN  IF before = <<>> THEN after = <<>>
            ELSE /\ Len(after) = Len(before)
                 /\ \A k \in 1..Len(after) : after[k].date <= after[1].date
                 /\ after[1] = before[FirstNewest(before)]
                 /\ after[FirstNewest(before)] = before[1]
                 /\ \A k \in 2..Len(before) :
                        k # FirstNewest(before) => after[k] = before[k]
                 /\ EntryBag(after) = EntryBag(before)
                 /\ (\A k \in 1..Len(before) : before[k].date <= before[1].date) =>
                        after = before

\* C23 witness: the maximal date stood at two positions after position 0, and
\* the first of them was exchanged with position 0
C23_Witness ==
    /\ sort_call.op = "lysp_sort_revisions"
    /\ Len(sort_call.before) = 4
    /\ sort_call.before[1].date = 1
    /\ sort_call.before[2].date = 2
    /\ sort_call.before[3].date = 3
    /\ sort_call.before[4].date = 3
    /\ sort_call.revs[1] = sort_call.before[3]
    /\ sort_call.revs[3] = sort_call.before[1]
    /\ sort_call.revs[4] = sort_call.before[4]

(***************************************************************************)
(* built-in type claims                                                    *)
(***************************************************************************)

\* C24: the names of the built-in types round-trip: for each of the 19
\* built-in types t, lysp_type_str2builtin(lys_datatype2str(t)) = t, and
\* lysp_type_str2builtin gives LY_TYPE_UNKNOWN for every string that is not
\* one of the 19 names, proper prefixes and extensions of them included
C24_NamesRoundTrip ==
    /\ builtin_call.op = "lys_datatype2str" /\ builtin_call.type \in BuiltinTypes =>
           builtin_call.back = builtin_call.type
    /\ builtin_call.op = "lysp_type_str2builtin" =>
           IF \E t \in BuiltinTypes : lys_datatype2str(t) = builtin_call.name
           THEN /\ builtin_call.type \in BuiltinTypes
                /\ lys_datatype2str(builtin_call.type) = builtin_call.name
           ELSE builtin_call.type = LY_TYPE_UNKNOWN
    /\ Cardinality(BuiltinTypes) = 19
    /\ Cardinality({lys_datatype2str(t) : t \in BuiltinTypes}) = 19

\* C24 witness: LY_TYPE_INST went to "instance-identifier" and back
C24_Witness ==
    /\ builtin_call.op = "lys_datatype2str"
    /\ builtin_call.type = "LY_TYPE_INST"
    /\ Len(builtin_call.name) = 19
    /\ builtin_call.back = "LY_TYPE_INST"

(***************************************************************************)
(* idle values of the groups of variables                                  *)
(***************************************************************************)

NoPrefixMod == [op |-> "none"]
NoTpdfMod == [op |-> "none"]
NoNodeidCall == [op |-> "none"]
NoCtx == [op |-> "none"]
NoCompiled == [op |-> "none"]
NoLast == [op |-> "none"]
NoLoading == [pc |-> "none"]
NoCheckCall == [op |-> "none"]
NoIdentFeed == [op |-> "none"]
NoSortCall == [op |-> "none"]
NoBuiltinCall == [op |-> "none"]

InitStatus ==
    /\ status_call \in StatusArgs
    /\ prefix_mod = NoPrefixMod
    /\ tpdf_mod = NoTpdfMod
    /\ nodeid_call = NoNodeidCall
    /\ ctx = NoCtx
    /\ last = NoLast
    /\ compiled = NoCompiled
    /\ loading = NoLoading
    /\ builtin_call = NoBuiltinCall
    /\ sort_call = NoSortCall
    /\ ident_feed = NoIdentFeed
    /\ check_call = NoCheckCall

NextStatus == CheckStatus

SpecStatus == InitStatus /\ [][NextStatus]_vars

InitPrefix ==
    /\ status_call = NoStatusCall
    /\ prefix_mod = NewPrefixMod
    /\ tpdf_mod = NoTpdfMod
    /\ nodeid_call = NoNodeidCall
    /\ ctx = NoCtx
    /\ last = NoLast
    /\ compiled = NoCompiled
    /\ loading = NoLoading
    /\ builtin_call = NoBuiltinCall
    /\ sort_call = NoSortCall
    /\ ident_feed = NoIdentFeed
    /\ check_call = NoCheckCall

NextPrefix == ParseModulePrefix \/ ParseImport

SpecPrefix == InitPrefix /\ [][NextPrefix]_vars

InitType ==
    /\ status_call = NoStatusCall
    /\ prefix_mod = NoPrefixMod
    /\ tpdf_mod \in {NewTpdfMod(imp_parsed) : imp_parsed \in BOOLEAN}
    /\ nodeid_call = NoNodeidCall
    /\ ctx = NoCtx
    /\ last = NoLast
    /\ compiled = NoCompiled
    /\ loading = NoLoading
    /\ builtin_call = NoBuiltinCall
    /\ sort_call = NoSortCall
    /\ ident_feed = NoIdentFeed
    /\ check_call = NoCheckCall

NextType == ParseTypedef \/ TypeFind \/ CheckTypedefs

SpecType == InitType /\ [][NextType]_vars

InitNodeid ==
    /\ status_call = NoStatusCall
    /\ prefix_mod = NoPrefixMod
    /\ tpdf_mod = NoTpdfMod
    /\ nodeid_call \in ResolveArgs \cup FindPrefixArgs
    /\ ctx = NoCtx
    /\ last = NoLast
    /\ compiled = NoCompiled
    /\ loading = NoLoading
    /\ builtin_call = NoBuiltinCall
    /\ sort_call = NoSortCall
    /\ ident_feed = NoIdentFeed
    /\ check_call = NoCheckCall

NextNodeid == ResolveSchemaNodeid \/ FindPrefix

SpecNodeid == InitNodeid /\ [][NextNodeid]_vars

InitLoad ==
    /\ status_call = NoStatusCall
    /\ prefix_mod = NoPrefixMod
    /\ tpdf_mod = NoTpdfMod
    /\ nodeid_call = NoNodeidCall
    /\ ctx \in NewContexts
    /\ last = NoLast
    /\ compiled = NoCompiled
    /\ loading = NoLoading
    /\ builtin_call = NoBuiltinCall
    /\ sort_call = NoSortCall
    /\ ident_feed = NoIdentFeed
    /\ check_call = NoCheckCall

NextLoad == LoadModule \/ FreeParsed

SpecLoad == InitLoad /\ [][NextLoad]_vars

InitBuiltin ==
    /\ status_call = NoStatusCall
    /\ prefix_mod = NoPrefixMod
    /\ tpdf_mod \in ProbeTpdfMods
    /\ nodeid_call = NoNodeidCall
    /\ ctx = NoCtx
    /\ last = NoLast
    /\ compiled = NoCompiled
    /\ loading = NoLoading
    /\ builtin_call = NoBuiltinCall
    /\ sort_call = NoSortCall
    /\ ident_feed = NoIdentFeed
    /\ check_call = NoCheckCall

NextBuiltin == ProbeType

SpecBuiltin == InitBuiltin /\ [][NextBuiltin]_vars

InitNacm ==
    /\ status_call = NoStatusCall
    /\ prefix_mod = NoPrefixMod
    /\ tpdf_mod = NoTpdfMod
    /\ nodeid_call = NoNodeidCall
    /\ ctx = NoCtx
    /\ last = NoLast
    /\ compiled = NewCompiled
    /\ loading = NoLoading
    /\ builtin_call = NoBuiltinCall
    /\ sort_call = NoSortCall
    /\ ident_feed = NoIdentFeed
    /\ check_call = NoCheckCall

NextNacm == CompileNodeExt \/ CompileStatementExt \/ CompileNextNode

SpecNacm == InitNacm /\ [][NextNacm]_vars

InitSearch ==
    /\ status_call = NoStatusCall
    /\ prefix_mod = NoPrefixMod
    /\ tpdf_mod = NoTpdfMod
    /\ nodeid_call = NoNodeidCall
    /\ ctx \in NewContexts
    /\ last = NoLast
    /\ compiled = NoCompiled
    /\ loading = NoLoading
    /\ builtin_call = NoBuiltinCall
    /\ sort_call = NoSortCall
    /\ ident_feed = NoIdentFeed
    /\ check_call = NoCheckCall

NextSearch ==
    EnterLoad \/ StepSearchClb \/ StepSearchFile \/ StepReturn \/ FreeParsedBetweenLoads

\* a call under way takes its next step, for the code has no wait: this is
\* WF_vars(StepSearchClb \/ StepSearchFile \/ StepReturn) with ENABLED written
\* out, one of the steps being possible exactly at the labels of SearchLabels
CallRunsOn ==
    \/ []<>(loading.pc \notin SearchLabels)
    \/ []<><<StepSearchClb \/ StepSearchFile \/ StepReturn>>_vars

SpecSearch == InitSearch /\ [][NextSearch]_vars /\ CallRunsOn

InitCheck ==
    /\ status_call = NoStatusCall
    /\ prefix_mod = NoPrefixMod
    /\ tpdf_mod = NoTpdfMod
    /\ nodeid_call = NoNodeidCall
    /\ ctx = NoCtx
    /\ last = NoLast
    /\ compiled = NoCompiled
    /\ loading = NoLoading
    /\ builtin_call = NoBuiltinCall
    /\ sort_call = NoSortCall
    /\ ident_feed = NoIdentFeed
    /\ \E p \in ParsedForCheck :
           \E info \in CheckDataFor(p) :
               check_call = [op |-> "args", p |-> p, info |-> info]

NextCheck == CheckLoadedModule

SpecCheck == InitCheck /\ [][NextCheck]_vars

InitIdent ==
    /\ status_call = NoStatusCall
    /\ prefix_mod = NoPrefixMod
    /\ tpdf_mod = NoTpdfMod
    /\ nodeid_call = NoNodeidCall
    /\ ctx = NoCtx
    /\ last = NoLast
    /\ compiled = NoCompiled
    /\ loading = NoLoading
    /\ builtin_call = NoBuiltinCall
    /\ sort_call = NoSortCall
    /\ check_call = NoCheckCall
    /\ ident_feed \in NewIdentFeeds

NextIdent == CheckNextChar

SpecIdent == InitIdent /\ [][NextIdent]_vars

InitSort ==
    /\ status_call = NoStatusCall
    /\ prefix_mod = NoPrefixMod
    /\ tpdf_mod = NoTpdfMod
    /\ nodeid_call = NoNodeidCall
    /\ ctx = NoCtx
    /\ last = NoLast
    /\ compiled = NoCompiled
    /\ loading = NoLoading
    /\ builtin_call = NoBuiltinCall
    /\ check_call = NoCheckCall
    /\ ident_feed = NoIdentFeed
    /\ \E revs \in RevisionArrays : sort_call = [op |-> "args", revs |-> revs]

NextSort == SortRevisions

SpecSort == InitSort /\ [][NextSort]_vars

InitConvert ==
    /\ status_call = NoStatusCall
    /\ prefix_mod = NoPrefixMod
    /\ tpdf_mod = NoTpdfMod
    /\ nodeid_call = NoNodeidCall
    /\ ctx = NoCtx
    /\ last = NoLast
    /\ compiled = NoCompiled
    /\ loading = NoLoading
    /\ check_call = NoCheckCall
    /\ ident_feed = NoIdentFeed
    /\ sort_call = NoSortCall
    /\ \/ \E t \in BuiltinTypes \cup {LY_TYPE_UNKNOWN} :
              builtin_call = [op |-> "type", type |-> t]
       \/ \E name \in ConvertedNames : builtin_call = [op |-> "name", name |-> name]

NextConvert == ConvertTypeAndBack \/ ConvertName

SpecConvert == InitConvert /\ [][NextConvert]_vars

====
